---- MODULE Spec2Model ----
(***************************************************************************)
(* State-machine model of the stateful policy filters of adresu-kit:       *)
(* RateLimiterFilter, EmergencyFilter, RepostAbuseFilter and               *)
(* EphemeralChatFilter, with the two library primitives they are built on  *)
(* (the token bucket of golang.org/x/time/rate and the expirable LRU of    *)
(* hashicorp/golang-lru) and the address normalisation of                  *)
(* emergency_filter.go.                                                    *)
(*                                                                         *)
(* Every Match call is run by a goroutine (a member of Threads).  A call   *)
(* is split exactly where the code leaves one critical section and enters  *)
(* the next: each cache Get, each cache Add and each limiter Allow is one  *)
(* atomic step; whatever is local to the call is folded into the step      *)
(* that follows it.                                                        *)
(***************************************************************************)
EXTENDS Integers, Sequences, FiniteSets, TLC

VARIABLES
    now,        \* time.Now(), in ticks
    lims,       \* heap of *rate.Limiter: limiter id -> limiter state
    lhist,      \* history, per limiter: time of its first Allow, tokens granted
    calls,      \* number of Match calls started
    rlCfg,      \* RateLimiterFilter.cfg
    rlCache,    \* RateLimiterFilter.limiters
    rlT,        \* goroutines inside RateLimiterFilter.Match
    emCfg,      \* the EmergencyFilterConfig the filter was built from
    emGlobal,   \* EmergencyFilter.newKeyLimiter (0 = nil)
    emSeen,     \* EmergencyFilter.recentSeen
    emPerIP,    \* EmergencyFilter.perIPLimiters
    emT,        \* goroutines inside EmergencyFilter.Match
    nmIn,       \* arguments of normalizeIPWithOptionalPrefixes, for two callers
    nmKey,      \* the keys it returned to them (<<>>: not called yet)
    raCfg,      \* RepostAbuseFilter.cfg
    raStats,    \* RepostAbuseFilter.stats
    raT,        \* goroutines inside RepostAbuseFilter.Match
    raPrev,     \* history, per identity: its last tracked Match call that returned
    ecCfg,      \* EphemeralChatFilter.cfg
    ecLastSeen, \* EphemeralChatFilter.lastSeen
    ecLimiters, \* EphemeralChatFilter.limiters
    ecT,        \* goroutines inside EphemeralChatFilter.Match
    lfCfg,      \* LanguageFilter.cfg
    lfCache,    \* LanguageFilter.approvedCache (<<>> when nil or empty)
    lfT,        \* goroutines inside LanguageFilter.Match
    szCfg,      \* the SizeFilterConfig the filter was built from
    szT,        \* goroutines inside SizeFilter.Match
    cc,         \* an expirable LRU cache driven directly by Get and Add
    ccTouch,    \* history, per key: the step of its last Get hit or Add
    ccOp        \* history: the last operation on cc and what it did

vars == <<now, lims, lhist, calls, rlCfg, rlCache, rlT,
          emCfg, emGlobal, emSeen, emPerIP, emT,
          nmIn, nmKey, raCfg, raStats, raT, raPrev, ecCfg, ecLastSeen, ecLimiters, ecT,
          lfCfg, lfCache, lfT, szCfg, szT, cc, ccTouch, ccOp>>

rlVars == <<rlCfg, rlCache, rlT>>
emVars == <<emCfg, emGlobal, emSeen, emPerIP, emT>>
nmVars == <<nmIn, nmKey>>
raVars == <<raCfg, raStats, raT, raPrev>>
ecVars == <<ecCfg, ecLastSeen, ecLimiters, ecT>>
lfVars == <<lfCfg, lfCache, lfT>>
szVars == <<szCfg, szT>>
ccVars == <<cc, ccTouch, ccOp>>
moreVars == <<lfVars, szVars, ccVars>>

\* the filters that RateLimiterFilter and EmergencyFilter share no state with
restVars == <<nmVars, raVars, ecVars, moreVars>>

(***************************************************************************)
(* Bounds of the model.                                                    *)
(***************************************************************************)
TicksPerSecond == 2
MaxTime == 3
MaxCalls == 3
RAMaxCalls == 4
NumThreads == 2

Threads == 1..NumThreads

Min(a, b) == IF a < b THEN a ELSE b

Pow2(n) == 2 ^ n

(***************************************************************************)
(* Strings.  A string is a record [form, w]: the syntax it is written in   *)
(* and the numbers written in it.  Two strings are equal iff both agree.   *)
(*   dotted  a.b.c.d                 mapped   ::ffff:a.b.c.d               *)
(*   hex     canonical IPv6 text     hexfull  IPv6 text with every group   *)
(*   cidr4   a.b.c.d/n               cidr6    IPv6/n                       *)
(*   nil     the text <nil>          pk       a public key                 *)
(*   empty   the empty string                                              *)
(***************************************************************************)
Str(form, w) == [form |-> form, w |-> w]

EmptyStr == Str("empty", <<>>)

NilStr == Str("nil", <<>>)

IPv4len == 4
IPv6len == 16

\* net.ParseIP: the 16-byte address a text denotes, <<>> (nil) if none.
\* An IPv4 text parses to the IPv4-in-IPv6 form, as net.IPv4() builds it.
V4InV6(o) == <<0, 0, 0, 0, 0, 0, 0, 0, 0, 0, 255, 255>> \o o

GroupBytes(g) ==
    [i \in 1..(2 * Len(g)) |->
        IF i % 2 = 1 THEN g[(i + 1) \div 2] \div 256 ELSE g[i \div 2] % 256]

ParseIP(s) ==
    CASE s.form \in {"dotted", "mapped"} ->
            IF Len(s.w) = IPv4len /\ \A i \in 1..IPv4len : s.w[i] \in 0..255
            THEN V4InV6(s.w) ELSE <<>>
      [] s.form \in {"hex", "hexfull"} ->
            IF Len(s.w) = 8 /\ \A i \in 1..8 : s.w[i] \in 0..65535
            THEN GroupBytes(s.w) ELSE <<>>
      [] OTHER -> <<>>

\* net.IP.To4
To4(ip) ==
    IF Len(ip) = IPv4len THEN ip
    ELSE IF Len(ip) = IPv6len
            /\ (\A i \in 1..10 : ip[i] = 0) /\ ip[11] = 255 /\ ip[12] = 255
         THEN SubSeq(ip, 13, 16)
         ELSE <<>>

\* net.CIDRMask(ones, bits)
CIDRMask(ones, bits) ==
    IF bits \notin {8 * IPv4len, 8 * IPv6len} \/ ones < 0 \/ ones > bits THEN <<>>
    ELSE [i \in 1..(bits \div 8) |->
            IF ones >= 8 * i THEN 255
            ELSE IF ones <= 8 * (i - 1) THEN 0
            ELSE 256 - Pow2(8 * i - ones)]

\* b & m for a byte b and a mask byte m of the form 1..10..0
AndMask(b, m) == b - (b % (256 - m))

\* net.IP.Mask
MaskIP(ip, mask) ==
    IF Len(ip) # Len(mask) \/ Len(ip) = 0 THEN <<>>
    ELSE [i \in 1..Len(ip) |-> AndMask(ip[i], mask[i])]

\* number of leading one bits of a mask (net.IPMask.Size, canonical masks)
MaskOnes(mask) ==
    LET RECURSIVE Cnt(_)
        Cnt(i) == IF i > Len(mask) THEN 0
                  ELSE IF mask[i] = 255 THEN 8 + Cnt(i + 1)
                  ELSE CHOOSE k \in 0..7 : 256 - Pow2(8 - k) = mask[i]
    IN Cnt(1)

BytesGroups(ip) == [i \in 1..(Len(ip) \div 2) |-> ip[2 * i - 1] * 256 + ip[2 * i]]

\* net.IP.String
IPString(ip) ==
    IF Len(ip) = 0 THEN NilStr
    ELSE IF Len(To4(ip)) = IPv4len THEN Str("dotted", To4(ip))
    ELSE Str("hex", BytesGroups(ip))

\* net.IPNet.String
IPNetString(ip, mask) ==
    IF Len(ip) = 0 \/ Len(mask) = 0 THEN NilStr
    ELSE IF Len(To4(ip)) = IPv4len
         THEN Str("cidr4", To4(ip) \o <<MaskOnes(mask)>>)
         ELSE Str("cidr6", BytesGroups(ip) \o <<MaskOnes(mask)>>)

\* the exact address, whatever the prefixes
normalizeExactOnly(ipStr, v4Prefix, v6Prefix) ==
    IF Len(ParseIP(ipStr)) = 0 THEN ipStr ELSE IPString(ParseIP(ipStr))

normalizeIPWithOptionalPrefixes(ipStr, v4Prefix, v6Prefix) ==
    LET ip == ParseIP(ipStr)
        v4 == To4(ip)
    IN  IF Len(ip) = 0 THEN ipStr
        ELSE IF Len(v4) # 0
             THEN IF v4Prefix > 0
                  THEN IPNetString(MaskIP(v4, CIDRMask(v4Prefix, 32)),
                                   CIDRMask(v4Prefix, 32))
                  ELSE IPString(v4)
             ELSE IF v6Prefix > 0
                  THEN IPNetString(MaskIP(ip, CIDRMask(v6Prefix, 128)),
                                   CIDRMask(v6Prefix, 128))
                  ELSE IPString(ip)

(***************************************************************************)
(* golang.org/x/time/rate: the token bucket.  Tokens are kept multiplied   *)
(* by TicksPerSecond, so that a limit of r tokens per second adds r units  *)
(* per tick and one token costs TicksPerSecond units.                      *)
(***************************************************************************)
TokenCost == TicksPerSecond

\* rate.NewLimiter(r, b): the first use finds the bucket full.
NewLimiter(r, b) == [limit |-> r, burst |-> b, tokens |-> b * TokenCost, last |-> 0]

\* Limiter.advance: the tokens at time t, capped at burst.
Advance(l, t) == Min(l.burst * TokenCost, l.tokens + (t - l.last) * l.limit)

AllowOkOffByOne(l, t) ==
    IF l.limit = 0 THEN l.burst >= 1
    ELSE l.burst >= 1 /\ Advance(l, t) - TokenCost > 0

\* Limiter.Allow at time t: whether a token is granted.  A limit of 0 grants
\* what is left of burst and never refills.
AllowOk(l, t) ==
    IF l.limit = 0 THEN l.burst >= 1
    ELSE l.burst >= 1 /\ Advance(l, t) - TokenCost >= 0

\* Limiter.Allow at time t: the limiter afterwards.
AllowNext(l, t) ==
    IF ~AllowOk(l, t) THEN l
    ELSE IF l.limit = 0 THEN [l EXCEPT !.burst = @ - 1]
    ELSE [l EXCEPT !.tokens = Advance(l, t) - TokenCost, !.last = t]

(***************************************************************************)
(* hashicorp/golang-lru/v2/expirable: a cache is the sequence of its       *)
(* entries [key, val, exp], most recently used first.                      *)
(***************************************************************************)
LruIndex(c, k) ==
    IF \E i \in 1..Len(c) : c[i].key = k
    THEN CHOOSE i \in 1..Len(c) : c[i].key = k
    ELSE 0

LruRemoveAt(c, i) == SubSeq(c, 1, i - 1) \o SubSeq(c, i + 1, Len(c))

LruFoundIgnoringExpiry(c, k, t) == LruIndex(c, k) # 0

\* LRU.Get: found iff the key is held and time.Now() is not after its expiry.
LruFound(c, k, t) == LruIndex(c, k) # 0 /\ ~(t > c[LruIndex(c, k)].exp)

LruValue(c, k) == c[LruIndex(c, k)].val

LruGetInPlace(c, k, t) == c

\* LRU.Get: the cache afterwards (a hit moves the entry to the front).
LruGet(c, k, t) ==
    IF LruFound(c, k, t)
    THEN <<c[LruIndex(c, k)]>> \o LruRemoveAt(c, LruIndex(c, k))
    ELSE c

\* LRU.Add: an existing key is updated in place, moved to the front and its
\* expiry renewed; a new key is pushed to the front and, over capacity, the
\* oldest entry is removed.
LruAdd(c, k, v, t, size, ttl) ==
    LET e == [key |-> k, val |-> v, exp |-> t + ttl]
    IN  IF LruIndex(c, k) # 0
        THEN <<e>> \o LruRemoveAt(c, LruIndex(c, k))
        ELSE IF size > 0 /\ Len(c) + 1 > size
             THEN <<e>> \o SubSeq(c, 1, Len(c) - 1)
             ELSE <<e>> \o c

\* LRU.deleteExpired (background goroutine): the indices it may remove.
LruExpired(c, t) == {i \in 1..Len(c) : t > c[i].exp}

LruKeys(c) == {c[i].key : i \in 1..Len(c)}

\* history of a limiter: t0, the time of its first Allow() (-1: none yet), g,
\* the number of tokens it has granted, and g0, those it granted at time t0
NoHist == [t0 |-> 0 - 1, g |-> 0, g0 |-> 0]

HistNext(h, t, ok) ==
    [t0 |-> IF h.t0 < 0 THEN t ELSE h.t0,
     g  |-> IF ok THEN h.g + 1 ELSE h.g,
     g0 |-> IF ok /\ h.t0 \in {0 - 1, t} THEN h.g0 + 1 ELSE h.g0]

(***************************************************************************)
(* Inputs: public keys and caller addresses (meta["remote_ip"]).           *)
(***************************************************************************)
PubKey(n) == Str("pk", <<n>>)

Addr77 == Str("dotted", <<203, 0, 113, 77>>)

Addr12 == Str("dotted", <<203, 0, 113, 12>>)

Mapped77 == Str("mapped", <<203, 0, 113, 77>>)

OtherNet == Str("dotted", <<198, 51, 100, 7>>)

NoError == <<>>

Verdict(allowed, err) == [allowed |-> allowed, err |-> err]

\* time passes
Tick ==
    /\ now < MaxTime
    /\ now' = now + 1
    /\ UNCHANGED <<lims, lhist, calls, rlVars, emVars, restVars>>

(***************************************************************************)
(* RateLimiterFilter                                                       *)
(***************************************************************************)
DefaultCacheSize == 65536
DefaultTTL == 600 * TicksPerSecond

RLRules ==
    << [Kinds |-> {1}, Rate |-> 1, Burst |-> 2, Description |-> "notes"],
       [Kinds |-> {2}, Rate |-> 0, Burst |-> 1, Description |-> "off"] >>

RLConfigs ==
    [Enabled : {TRUE}, Rules : {RLRules}, DefaultRate : {0, 2}, DefaultBurst : {1},
     By : {"ip", "pubkey", "both"}, CacheSize : {2}, TTL : {TicksPerSecond}]
    \cup
    [Enabled : {FALSE}, Rules : {RLRules}, DefaultRate : {2}, DefaultBurst : {1},
     By : {"both"}, CacheSize : {0}, TTL : {0}]

RLEvent(kind, pk, ip) == [Kind |-> kind, PubKey |-> pk, remote_ip |-> ip]

RLEvents ==
    { RLEvent(1, PubKey(1), Addr77), RLEvent(1, PubKey(1), Mapped77),
      RLEvent(1, PubKey(1), EmptyStr), RLEvent(1, EmptyStr, Addr77),
      RLEvent(2, PubKey(1), Addr77), RLEvent(3, PubKey(1), Addr77) }

\* NewRateLimiterFilter: the size and ttl the cache is built with
rlSize(cfg) == IF cfg.CacheSize <= 0 THEN DefaultCacheSize ELSE cfg.CacheSize

rlTTL(cfg) == IF cfg.TTL <= 0 THEN DefaultTTL ELSE cfg.TTL

\* NewRateLimiterFilter: kindToRule[kind], as the index of the rule that was
\* stored last for the kind (0: no entry)
kindToRule(cfg, kind) ==
    LET S == {i \in 1..Len(cfg.Rules) : kind \in cfg.Rules[i].Kinds}
    IN  IF S = {} THEN 0 ELSE CHOOSE i \in S : \A j \in S : j <= i

\* Match, lines 64-79: rate, burst, rule id and description of the event
Resolve(cfg, kind) ==
    LET i == kindToRule(cfg, kind)
    IN  IF i # 0
        THEN [rate |-> cfg.Rules[i].Rate, burst |-> cfg.Rules[i].Burst,
              id |-> Str("rule", <<i - 1>>), desc |-> cfg.Rules[i].Description]
        ELSE [rate |-> cfg.DefaultRate, burst |-> cfg.DefaultBurst,
              id |-> Str("default", <<>>), desc |-> "default"]

RateDisabledStrict(rate) == rate < 0

\* Match, line 81
RateDisabled(rate) == rate <= 0

IPKey(ev) ==
    IF ev.remote_ip # EmptyStr THEN <<[dim |-> "ip", id |-> ev.remote_ip]>> ELSE <<>>

PKKey(ev) ==
    IF ev.PubKey # EmptyStr THEN <<[dim |-> "pk", id |-> ev.PubKey]>> ELSE <<>>

BothKeysPubKeyFirst(ev) == PKKey(ev) \o IPKey(ev)

\* Match, lines 97-103
BothKeys(ev) == IPKey(ev) \o PKKey(ev)

\* Match, lines 85-104
UserKeys(by, ev) ==
    CASE by = "ip" -> IPKey(ev)
      [] by = "pubkey" -> PKKey(ev)
      [] by = "both" -> BothKeys(ev)
      [] OTHER -> <<>>

\* Match, line 107
CacheKey(ruleID, userKey) == [rule |-> ruleID, dim |-> userKey.dim, id |-> userKey.id]

\* A goroutine in Match: the event, the resolved rule, userKeys, the loop
\* index, the limiter in hand, the verdict, and ops, the accesses the call
\* has made to the filter's state so far.
RLIdle ==
    [pc |-> "idle", ev |-> RLEvent(0, EmptyStr, EmptyStr),
     rule |-> Resolve([Rules |-> <<>>, DefaultRate |-> 0, DefaultBurst |-> 0], 0),
     keys |-> <<>>, i |-> 0, cur |-> 0, ret |-> Verdict(TRUE, NoError), ops |-> <<>>]

RLReturn(th, allowed, err) == [th EXCEPT !.pc = "done", !.ret = Verdict(allowed, err)]

RLRateError(desc) == <<"blocked: rate limit exceeded for", desc>>

RLKey(th) == CacheKey(th.rule.id, th.keys[th.i])

\* one access of a call to the filter's state: Get (ok: found), Add, Allow
\* (ok: granted)
Op(op, dim, ok) == [op |-> op, dim |-> dim, ok |-> ok]

RLOp(th, op, ok) == [th EXCEPT !.ops = Append(@, Op(op, th.keys[th.i].dim, ok))]

\* getLimiter, lines 117-119: f.limiters.Get(key), for the key th.keys[th.i]
RLGetThread(th, cache, t) ==
    IF LruFound(cache, RLKey(th), t)
    THEN [RLOp(th, "get", TRUE) EXCEPT !.pc = "allow", !.cur = LruValue(cache, RLKey(th))]
    ELSE [RLOp(th, "get", FALSE) EXCEPT !.pc = "add"]

\* Match, lines 59-105, and the Get of the first key
RLStart(t, ev) ==
    LET rule == Resolve(rlCfg, ev.Kind)
        keys == UserKeys(rlCfg.By, ev)
        th == [RLIdle EXCEPT !.ev = ev, !.rule = rule, !.keys = keys, !.i = 1]
    IN  /\ rlT[t].pc \in {"idle", "done"}
        /\ calls < MaxCalls
        /\ calls' = calls + 1
        /\ IF ~rlCfg.Enabled \/ RateDisabled(rule.rate) \/ keys = <<>>
           THEN /\ rlT' = [rlT EXCEPT ![t] = RLReturn(th, TRUE, NoError)]
                /\ UNCHANGED rlCache
           ELSE /\ rlT' = [rlT EXCEPT ![t] = RLGetThread(th, rlCache, now)]
                /\ rlCache' = LruGet(rlCache, RLKey(th), now)
        /\ UNCHANGED <<now, lims, lhist, rlCfg, emVars, restVars>>

\* the loop's next round: the Get of the next key
RLGet(t) ==
    LET th == rlT[t]
    IN  /\ th.pc = "get"
        /\ rlT' = [rlT EXCEPT ![t] = RLGetThread(th, rlCache, now)]
        /\ rlCache' = LruGet(rlCache, RLKey(th), now)
        /\ UNCHANGED <<now, lims, lhist, calls, rlCfg, emVars, restVars>>

\* getLimiter, lines 120-122: rate.NewLimiter and f.limiters.Add(key, limiter)
RLAdd(t) ==
    LET th == rlT[t]
        id == Len(lims) + 1
    IN  /\ th.pc = "add"
        /\ lims' = Append(lims, NewLimiter(th.rule.rate, th.rule.burst))
        /\ lhist' = Append(lhist, NoHist)
        /\ rlCache' = LruAdd(rlCache, RLKey(th), id, now, rlSize(rlCfg), rlTTL(rlCfg))
        /\ rlT' = [rlT EXCEPT ![t] = [RLOp(th, "add", TRUE) EXCEPT !.pc = "allow", !.cur = id]]
        /\ UNCHANGED <<now, calls, rlCfg, emVars, restVars>>

RLAfterAllowDenyingSilently(th, ok) ==
    IF ~ok THEN RLReturn(th, FALSE, NoError)
    ELSE IF th.i = Len(th.keys) THEN RLReturn(th, TRUE, NoError)
    ELSE [th EXCEPT !.pc = "get", !.i = th.i + 1, !.cur = 0]

\* Match, lines 109-113: after limiter.Allow(), the return or the next key
RLAfterAllow(th, ok) ==
    IF ~ok THEN RLReturn(th, FALSE, RLRateError(th.rule.desc))
    ELSE IF th.i = Len(th.keys) THEN RLReturn(th, TRUE, NoError)
    ELSE [th EXCEPT !.pc = "get", !.i = th.i + 1, !.cur = 0]

\* Match, line 109: limiter.Allow()
RLAllow(t) ==
    LET th == rlT[t]
        ok == AllowOk(lims[th.cur], now)
    IN  /\ th.pc = "allow"
        /\ lims' = [lims EXCEPT ![th.cur] = AllowNext(@, now)]
        /\ lhist' = [lhist EXCEPT ![th.cur] = HistNext(@, now, ok)]
        /\ rlT' = [rlT EXCEPT ![t] = RLAfterAllow(RLOp(th, "allow", ok), ok)]
        /\ UNCHANGED <<now, calls, rlCfg, rlCache, emVars, restVars>>

\* the cache's cleanup goroutine removes an expired entry
RLExpire ==
    /\ \E i \in LruExpired(rlCache, now) : rlCache' = LruRemoveAt(rlCache, i)
    /\ UNCHANGED <<now, lims, lhist, calls, rlCfg, rlT, emVars, restVars>>

EMOff ==
    /\ emCfg = [Enabled |-> FALSE]
    /\ emGlobal = 0
    /\ emSeen = <<>>
    /\ emPerIP = <<>>
    /\ emT = <<>>

NMOff ==
    /\ nmIn = <<>>
    /\ nmKey = <<>>

RAOff ==
    /\ raCfg = [Enabled |-> FALSE]
    /\ raStats = <<>>
    /\ raT = <<>>
    /\ raPrev = <<>>

ECOff ==
    /\ ecCfg = [Enabled |-> FALSE]
    /\ ecLastSeen = <<>>
    /\ ecLimiters = <<>>
    /\ ecT = <<>>

LFOff ==
    /\ lfCfg = [Enabled |-> FALSE]
    /\ lfCache = <<>>
    /\ lfT = <<>>

SZOff ==
    /\ szCfg = [DefaultMaxSize |-> 0, Rules |-> <<>>]
    /\ szT = <<>>

CCOff ==
    /\ cc = <<>>
    /\ ccTouch = <<>>
    /\ ccOp = [op |-> ""]

MoreOff == LFOff /\ SZOff /\ CCOff

RestOff == NMOff /\ RAOff /\ ECOff /\ MoreOff

RLInit(cfgs, threads) ==
    /\ now = 0
    /\ lims = <<>>
    /\ lhist = <<>>
    /\ calls = 0
    /\ rlCfg \in cfgs
    /\ rlCache = <<>>
    /\ rlT = [t \in threads |-> RLIdle]
    /\ EMOff
    /\ RestOff

\* one Match call at a time
InitRL == RLInit(RLConfigs, {1})

NextRL ==
    \/ \E t \in DOMAIN rlT, ev \in RLEvents : RLStart(t, ev)
    \/ \E t \in DOMAIN rlT : RLGet(t)
    \/ \E t \in DOMAIN rlT : RLAdd(t)
    \/ \E t \in DOMAIN rlT : RLAllow(t)
    \/ RLExpire
    \/ Tick

\* RateLimiterFilter, its Match calls one after the other
SpecRL == InitRL /\ [][NextRL]_vars

\* concurrent Match calls, limited per address
RLConcConfigs == {c \in RLConfigs : c.Enabled /\ c.By = "ip" /\ c.DefaultRate = 2}

RLConcEvents == {RLEvent(1, PubKey(1), Addr77), RLEvent(3, PubKey(1), Addr77)}

InitRLConc == RLInit(RLConcConfigs, Threads)

NextRLConc ==
    \/ \E t \in DOMAIN rlT, ev \in RLConcEvents : RLStart(t, ev)
    \/ \E t \in DOMAIN rlT : RLAdd(t)
    \/ \E t \in DOMAIN rlT : RLAllow(t)
    \/ RLExpire
    \/ Tick

\* RateLimiterFilter under concurrent Match calls
SpecRLConc == InitRLConc /\ [][NextRLConc]_vars

(***************************************************************************)
(* EmergencyFilter                                                         *)
(***************************************************************************)
PerIPConfigs ==
    [Enabled : {TRUE}, CacheSize : {2}, TTL : {2}, Rate : {1}, Burst : {1},
     IPv4Prefix : {0, 24}, IPv6Prefix : {64}]
    \cup
    [Enabled : {FALSE}, CacheSize : {0}, TTL : {0}, Rate : {0}, Burst : {0},
     IPv4Prefix : {0}, IPv6Prefix : {0}]

EMConfigs ==
    [Enabled : {TRUE}, NewKeysRate : {1}, NewKeysBurst : {1, 2}, CacheSize : {3},
     TTL : {1}, PerIP : PerIPConfigs]

EMEvent(pk, ip) == [PubKey |-> pk, remote_ip |-> ip]

EMAddrs == {Addr77, Addr12, EmptyStr}

EMEvents ==
    {EMEvent(pk, ip) : pk \in {PubKey(1), PubKey(2)}, ip \in EMAddrs}
    \cup {EMEvent(EmptyStr, Addr77)}

\* A goroutine in Match: the event, the normalised address key, the limiter
\* in hand, the verdict, and ops, the accesses the call has made so far.
EMIdle ==
    [pc |-> "idle", ev |-> EMEvent(EmptyStr, EmptyStr), key |-> EmptyStr,
     cur |-> 0, ret |-> Verdict(TRUE, NoError), ops |-> <<>>]

EMReturn(th, allowed, err) == [th EXCEPT !.pc = "done", !.ret = Verdict(allowed, err)]

EMOp(th, op, dim, ok) == [th EXCEPT !.ops = Append(@, Op(op, dim, ok))]

EMPerIPError == <<"blocked: emergency per-ip limit for new pubkeys exceeded", "">>

EMGlobalError == <<"blocked: emergency global limit for new pubkeys exceeded", "">>

\* Match, lines 62-65: after a miss in recentSeen, the per-address check if
\* it is enabled and the caller's address is known, else the global check
EMAfterMiss(th, cfg) ==
    IF cfg.PerIP.Enabled /\ th.ev.remote_ip # EmptyStr
    THEN [th EXCEPT !.pc = "ipget",
                    !.key = normalizeIPWithOptionalPrefixes(
                                th.ev.remote_ip, cfg.PerIP.IPv4Prefix, cfg.PerIP.IPv6Prefix)]
    ELSE [th EXCEPT !.pc = "global"]

EMAfterSeenNoShortcut(th, found, cfg) == EMAfterMiss(EMOp(th, "get", "seen", found), cfg)

\* Match, lines 58-60: after f.recentSeen.Get(pk)
EMAfterSeen(th, found, cfg) ==
    IF found THEN EMReturn(EMOp(th, "get", "seen", TRUE), TRUE, NoError)
    ELSE EMAfterMiss(EMOp(th, "get", "seen", FALSE), cfg)

\* Match, lines 50-60
EMStart(t, ev) ==
    LET th == [EMIdle EXCEPT !.ev = ev]
    IN  /\ emT[t].pc \in {"idle", "done"}
        /\ calls < MaxCalls
        /\ calls' = calls + 1
        /\ IF emGlobal = 0 \/ ev.PubKey = EmptyStr
           THEN /\ emT' = [emT EXCEPT ![t] = EMReturn(th, TRUE, NoError)]
                /\ UNCHANGED emSeen
           ELSE /\ emT' = [emT EXCEPT ![t] =
                        EMAfterSeen(th, LruFound(emSeen, ev.PubKey, now), emCfg)]
                /\ emSeen' = LruGet(emSeen, ev.PubKey, now)
        /\ UNCHANGED <<now, lims, lhist, emCfg, emGlobal, emPerIP, rlVars, restVars>>

\* Match, lines 67-68: f.perIPLimiters.Get(key)
EMIPGet(t) ==
    LET th == emT[t]
    IN  /\ th.pc = "ipget"
        /\ emPerIP' = LruGet(emPerIP, th.key, now)
        /\ emT' = [emT EXCEPT ![t] =
                IF LruFound(emPerIP, th.key, now)
                THEN [EMOp(th, "get", "ip", TRUE) EXCEPT
                         !.pc = "ipallow", !.cur = LruValue(emPerIP, th.key)]
                ELSE [EMOp(th, "get", "ip", FALSE) EXCEPT !.pc = "ipadd"]]
        /\ UNCHANGED <<now, lims, lhist, calls, emCfg, emGlobal, emSeen, rlVars, restVars>>

\* Match, lines 70-71: rate.NewLimiter and f.perIPLimiters.Add(key, lim)
EMIPAdd(t) ==
    LET th == emT[t]
        id == Len(lims) + 1
    IN  /\ th.pc = "ipadd"
        /\ lims' = Append(lims, NewLimiter(emCfg.PerIP.Rate, emCfg.PerIP.Burst))
        /\ lhist' = Append(lhist, NoHist)
        /\ emPerIP' = LruAdd(emPerIP, th.key, id, now,
                             emCfg.PerIP.CacheSize, emCfg.PerIP.TTL)
        /\ emT' = [emT EXCEPT ![t] =
                [EMOp(th, "add", "ip", TRUE) EXCEPT !.pc = "ipallow", !.cur = id]]
        /\ UNCHANGED <<now, calls, emCfg, emGlobal, emSeen, rlVars, restVars>>

EMAfterIPAllowNoReturn(th, ok) == [th EXCEPT !.pc = "global"]

\* Match, lines 74-76: after lim.Allow()
EMAfterIPAllow(th, ok) ==
    IF ~ok THEN EMReturn(th, FALSE, EMPerIPError) ELSE [th EXCEPT !.pc = "global"]

\* Match, line 74: lim.Allow()
EMIPAllow(t) ==
    LET th == emT[t]
        ok == AllowOk(lims[th.cur], now)
    IN  /\ th.pc = "ipallow"
        /\ lims' = [lims EXCEPT ![th.cur] = AllowNext(@, now)]
        /\ lhist' = [lhist EXCEPT ![th.cur] = HistNext(@, now, ok)]
        /\ emT' = [emT EXCEPT ![t] = EMAfterIPAllow(EMOp(th, "allow", "ip", ok), ok)]
        /\ UNCHANGED <<now, calls, emCfg, emGlobal, emSeen, emPerIP, rlVars, restVars>>

EMAfterGlobalNoReturn(th, ok) == [th EXCEPT !.pc = "seenadd"]

\* Match, lines 80-82: after f.newKeyLimiter.Allow()
EMAfterGlobal(th, ok) ==
    IF ~ok THEN EMReturn(th, FALSE, EMGlobalError) ELSE [th EXCEPT !.pc = "seenadd"]

\* Match, line 80: f.newKeyLimiter.Allow()
EMGlobalAllow(t) ==
    LET th == emT[t]
        ok == AllowOk(lims[emGlobal], now)
    IN  /\ th.pc = "global"
        /\ lims' = [lims EXCEPT ![emGlobal] = AllowNext(@, now)]
        /\ lhist' = [lhist EXCEPT ![emGlobal] = HistNext(@, now, ok)]
        /\ emT' = [emT EXCEPT ![t] = EMAfterGlobal(EMOp(th, "allow", "global", ok), ok)]
        /\ UNCHANGED <<now, calls, emCfg, emGlobal, emSeen, emPerIP, rlVars, restVars>>

\* Match, lines 84-85: f.recentSeen.Add(pk, struct{}{}) and return true
EMSeenAdd(t) ==
    LET th == emT[t]
    IN  /\ th.pc = "seenadd"
        /\ emSeen' = LruAdd(emSeen, th.ev.PubKey, 0, now, emCfg.CacheSize, emCfg.TTL)
        /\ emT' = [emT EXCEPT ![t] = EMReturn(EMOp(th, "add", "seen", TRUE), TRUE, NoError)]
        /\ UNCHANGED <<now, lims, lhist, calls, emCfg, emGlobal, emPerIP, rlVars, restVars>>

\* the caches' cleanup goroutines remove an expired entry
EMExpire ==
    /\ \/ /\ \E i \in LruExpired(emSeen, now) : emSeen' = LruRemoveAt(emSeen, i)
          /\ UNCHANGED emPerIP
       \/ /\ \E i \in LruExpired(emPerIP, now) : emPerIP' = LruRemoveAt(emPerIP, i)
          /\ UNCHANGED emSeen
    /\ UNCHANGED <<now, lims, lhist, calls, emCfg, emGlobal, emT, rlVars, restVars>>

RLOff ==
    /\ rlCfg = [Enabled |-> FALSE]
    /\ rlCache = <<>>
    /\ rlT = <<>>

\* NewEmergencyFilter; the global limiter is limiter 1
EMInit(cfgs, threads) ==
    /\ now = 0
    /\ calls = 0
    /\ emCfg \in cfgs
    /\ IF emCfg.Enabled
       THEN /\ lims = <<NewLimiter(emCfg.NewKeysRate, emCfg.NewKeysBurst)>>
            /\ lhist = <<NoHist>>
            /\ emGlobal = 1
       ELSE /\ lims = <<>>
            /\ lhist = <<>>
            /\ emGlobal = 0
    /\ emSeen = <<>>
    /\ emPerIP = <<>>
    /\ emT = [t \in threads |-> EMIdle]
    /\ RLOff
    /\ RestOff

EMDisabled ==
    [Enabled |-> FALSE, NewKeysRate |-> 0, NewKeysBurst |-> 0, CacheSize |-> 0,
     TTL |-> 0, PerIP |-> CHOOSE c \in PerIPConfigs : ~c.Enabled]

\* one Match call at a time
InitEM == EMInit(EMConfigs \cup {EMDisabled}, {1})

NextEM ==
    \/ \E t \in DOMAIN emT, ev \in EMEvents : EMStart(t, ev)
    \/ \E t \in DOMAIN emT : EMIPGet(t)
    \/ \E t \in DOMAIN emT : EMIPAdd(t)
    \/ \E t \in DOMAIN emT : EMIPAllow(t)
    \/ \E t \in DOMAIN emT : EMGlobalAllow(t)
    \/ \E t \in DOMAIN emT : EMSeenAdd(t)
    \/ EMExpire
    \/ Tick

\* EmergencyFilter, its Match calls one after the other
SpecEM == InitEM /\ [][NextEM]_vars

\* concurrent Match calls of new identities at one instant
EMConcEvents == {EMEvent(PubKey(n), Addr77) : n \in 1..3}

InitEMConc == EMInit({c \in EMConfigs : c.PerIP.IPv4Prefix = 0}, Threads)

NextEMConc ==
    \/ \E t \in DOMAIN emT, ev \in EMConcEvents : EMStart(t, ev)
    \/ \E t \in DOMAIN emT : EMIPGet(t)
    \/ \E t \in DOMAIN emT : EMIPAdd(t)
    \/ \E t \in DOMAIN emT : EMIPAllow(t)
    \/ \E t \in DOMAIN emT : EMGlobalAllow(t)
    \/ \E t \in DOMAIN emT : EMSeenAdd(t)

\* EmergencyFilter under concurrent Match calls, no time passing
SpecEMConc == InitEMConc /\ [][NextEMConc]_vars

(***************************************************************************)
(* normalizeIPWithOptionalPrefixes, called on its own: two callers, each   *)
(* with a text of its own, under one pair of prefix lengths.               *)
(***************************************************************************)
Net24Text == Str("cidr4", <<203, 0, 113, 0, 24>>)

V6One == Str("hex", <<8193, 3512, 0, 0, 0, 0, 0, 1>>)

V6Two == Str("hex", <<8193, 3512, 0, 0, 0, 0, 0, 2>>)

V6OneFull == Str("hexfull", <<8193, 3512, 0, 0, 0, 0, 0, 1>>)

NMStrings ==
    {Addr77, Addr12, Mapped77, OtherNet, V6One, V6Two, V6OneFull,
     Net24Text, NilStr, EmptyStr, PubKey(1)}

NMPrefixes4 == {0 - 1, 0, 24, 32, 33}

NMPrefixes6 == {0, 64, 128, 129}

NMInputs ==
    [a : NMStrings, b : NMStrings, v4Prefix : NMPrefixes4, v6Prefix : NMPrefixes6]

\* both callers call normalizeIPWithOptionalPrefixes
NMNormalize ==
    /\ nmKey = <<>>
    /\ nmKey' = <<normalizeIPWithOptionalPrefixes(nmIn.a, nmIn.v4Prefix, nmIn.v6Prefix),
                  normalizeIPWithOptionalPrefixes(nmIn.b, nmIn.v4Prefix, nmIn.v6Prefix)>>
    /\ UNCHANGED <<now, lims, lhist, calls, nmIn, rlVars, emVars, raVars, ecVars, moreVars>>

InitNM ==
    /\ now = 0
    /\ lims = <<>>
    /\ lhist = <<>>
    /\ calls = 0
    /\ nmIn \in NMInputs
    /\ nmKey = <<>>
    /\ RLOff
    /\ EMOff
    /\ RAOff
    /\ ECOff
    /\ MoreOff

NextNM == NMNormalize

SpecNM == InitNM /\ [][NextNM]_vars

(***************************************************************************)
(* RepostAbuseFilter.  The cache maps a public key to the value of the     *)
(* UserActivityStats it points to: the object is read and written only     *)
(* under f.mu, and only through the cache entry or on its way into it.     *)
(* A ratio is a pair [num, den], den > 0.                                  *)
(***************************************************************************)
KindTextNote == 1
KindRepost == 6
KindGenericRepost == 16

Ratio(n, d) == [num |-> n, den |-> d]

\* time.Time{}: LastEventTime.IsZero()
ZeroTime == 0 - 1

\* &UserActivityStats{}
ZeroStats == [OriginalPosts |-> 0, Reposts |-> 0, LastEventTime |-> ZeroTime]

RABase ==
    [Enabled |-> TRUE, CacheSize |-> 2, CacheTTL |-> 2, MaxRatio |-> Ratio(1, 2),
     MinEvents |-> 5, ResetDuration |-> 1, CountRejectAsActivity |-> TRUE,
     RequireNIP21InQuote |-> FALSE]

RAConfigs ==
    {[RABase EXCEPT !.MinEvents = m, !.ResetDuration = w, !.CountRejectAsActivity = c] :
        m \in {1, 5}, w \in {0, 1}, c \in BOOLEAN}
    \cup
    {[RABase EXCEPT !.MaxRatio = Ratio(3, 2), !.MinEvents = 0],
     [RABase EXCEPT !.MaxRatio = Ratio(0 - 1, 2), !.MinEvents = 1],
     [RABase EXCEPT !.RequireNIP21InQuote = TRUE, !.MinEvents = 1],
     [RABase EXCEPT !.CacheSize = 1, !.MinEvents = 1],
     [RABase EXCEPT !.ResetDuration = 2, !.CacheTTL = 3, !.MinEvents = 1],
     [RABase EXCEPT !.Enabled = FALSE]}

\* NewRepostAbuseFilter, lines 38-42: MaxRatio clamped to [0, 1]
ClampRatio(r) ==
    IF r.num < 0 THEN Ratio(0, 1)
    ELSE IF r.num > r.den THEN Ratio(1, 1)
    ELSE r

NewRepostAbuseFilter(cfg) == [cfg EXCEPT !.MaxRatio = ClampRatio(@)]

\* an event: its kind, its author, whether it carries a q tag and whether
\* its content holds a NIP-21 reference
RAEvent(kind, pk, q, ref) == [Kind |-> kind, PubKey |-> pk, q |-> q, ref |-> ref]

RAEvents ==
    {RAEvent(KindTextNote, PubKey(1), FALSE, FALSE),
     RAEvent(KindTextNote, PubKey(1), TRUE, FALSE),
     RAEvent(KindTextNote, PubKey(1), TRUE, TRUE),
     RAEvent(KindRepost, PubKey(1), FALSE, FALSE),
     RAEvent(KindGenericRepost, PubKey(1), FALSE, FALSE),
     RAEvent(7, PubKey(1), FALSE, FALSE),
     RAEvent(KindTextNote, PubKey(2), FALSE, FALSE)}

\* Match, line 56
RATracked(kind) == kind \in {KindTextNote, KindRepost, KindGenericRepost}

isRepostNIP18(cfg, ev) ==
    CASE ev.Kind = KindRepost -> TRUE
      [] ev.Kind = KindGenericRepost -> TRUE
      [] ev.Kind = KindTextNote -> ev.q /\ (~cfg.RequireNIP21InQuote \/ ev.ref)
      [] OTHER -> FALSE

\* Match, lines 64-65 and 100-101: the inactivity window has elapsed
RAElapsed(cfg, stats, t) ==
    /\ cfg.ResetDuration > 0
    /\ stats.LastEventTime # ZeroTime
    /\ t - stats.LastEventTime > cfg.ResetDuration

RAResetNever(cfg, stats, t) == stats

RARejectsOnCurrentRatio(cfg, isRepost, copy) ==
    /\ isRepost
    /\ copy.OriginalPosts + copy.Reposts >= cfg.MinEvents
    /\ copy.OriginalPosts + copy.Reposts > 0
    /\ copy.Reposts * cfg.MaxRatio.den
            >= cfg.MaxRatio.num * (copy.OriginalPosts + copy.Reposts)

\* Match, lines 66 and 102
RAReset(cfg, stats, t) ==
    IF RAElapsed(cfg, stats, t)
    THEN [stats EXCEPT !.OriginalPosts = 0, !.Reposts = 0]
    ELSE stats

RARejectsAboveRatio(cfg, isRepost, copy) ==
    /\ isRepost
    /\ copy.OriginalPosts + copy.Reposts >= cfg.MinEvents
    /\ (copy.Reposts + 1) * cfg.MaxRatio.den
            > cfg.MaxRatio.num * (copy.OriginalPosts + copy.Reposts + 1)

\* Match, lines 74-93: whether rejectionError is set, given statsCopy
RARejects(cfg, isRepost, copy) ==
    /\ isRepost
    /\ copy.OriginalPosts + copy.Reposts >= cfg.MinEvents
    /\ copy.OriginalPosts + copy.Reposts + 1 > 0
    /\ (copy.Reposts + 1) * cfg.MaxRatio.den
            >= cfg.MaxRatio.num * (copy.OriginalPosts + copy.Reposts + 1)

RARatioError == <<"blocked: too many reposts">>

\* A goroutine in Match: the event, statsCopy and the verdict; had, the
\* stats of the author as the call found them (before any reset); alone,
\* whether no other call for the same author has overlapped this one.
RAIdle ==
    [pc |-> "idle", ev |-> RAEvent(0, EmptyStr, FALSE, FALSE), copy |-> ZeroStats,
     had |-> ZeroStats, alone |-> TRUE, ret |-> Verdict(TRUE, NoError)]

\* the goroutines, once goroutine t has entered Match as th: the calls for
\* the same author that are between their two sections are overlapped
RAEnter(t, th) ==
    [u \in DOMAIN raT |->
        IF u = t THEN th
        ELSE IF raT[u].pc = "update" /\ raT[u].ev.PubKey = th.ev.PubKey
             THEN [raT[u] EXCEPT !.alone = FALSE]
             ELSE raT[u]]

RAOverlapped(t, ev) ==
    \E u \in DOMAIN raT \ {t} : raT[u].pc = "update" /\ raT[u].ev.PubKey = ev.PubKey

\* f.stats.Get(key): the stats found, a new object if none
RAFetch(cache, k, t) == IF LruFound(cache, k, t) THEN LruValue(cache, k) ELSE ZeroStats

\* the object the entry of k points to is overwritten
RAStore(cache, k, v) == [cache EXCEPT ![LruIndex(cache, k)].val = v]

\* Match, lines 53-70: the first section under f.mu
RAStart(t, ev) ==
    LET th == [RAIdle EXCEPT !.ev = ev]
        found == LruFound(raStats, ev.PubKey, now)
        stats == RAReset(raCfg, RAFetch(raStats, ev.PubKey, now), now)
    IN  /\ raT[t].pc \in {"idle", "done"}
        /\ calls < RAMaxCalls
        /\ calls' = calls + 1
        /\ IF ~raCfg.Enabled \/ ~RATracked(ev.Kind)
           THEN /\ raT' = [raT EXCEPT ![t] = [RAIdle EXCEPT !.pc = "done"]]
                /\ UNCHANGED raStats
           ELSE /\ raT' = RAEnter(t, [th EXCEPT !.pc = "update", !.copy = stats,
                                                 !.had = RAFetch(raStats, ev.PubKey, now),
                                                 !.alone = ~RAOverlapped(t, ev)])
                /\ raStats' = IF found
                              THEN RAStore(LruGet(raStats, ev.PubKey, now), ev.PubKey, stats)
                              ELSE raStats
        /\ UNCHANGED <<now, lims, lhist, raCfg, raPrev, rlVars, emVars, nmVars, ecVars, moreVars>>

RAUpdateKeepingTime(cfg, fresh, rejected, isRepost, t) ==
    LET counted == IF rejected THEN fresh
                   ELSE IF isRepost THEN [fresh EXCEPT !.Reposts = @ + 1]
                   ELSE [fresh EXCEPT !.OriginalPosts = @ + 1]
    IN  IF ~rejected THEN [counted EXCEPT !.LastEventTime = t] ELSE counted

RAUpdateCountingRejected(cfg, fresh, rejected, isRepost, t) ==
    LET timed == IF ~rejected \/ cfg.CountRejectAsActivity
                 THEN [fresh EXCEPT !.LastEventTime = t] ELSE fresh
    IN  IF isRepost THEN [timed EXCEPT !.Reposts = @ + 1]
        ELSE [timed EXCEPT !.OriginalPosts = @ + 1]

\* Match, lines 105-114: fresh after the update
RAUpdated(cfg, fresh, rejected, isRepost, t) ==
    LET timed == IF ~rejected \/ cfg.CountRejectAsActivity
                 THEN [fresh EXCEPT !.LastEventTime = t] ELSE fresh
    IN  IF rejected THEN timed
        ELSE IF isRepost THEN [timed EXCEPT !.Reposts = @ + 1]
        ELSE [timed EXCEPT !.OriginalPosts = @ + 1]

RAUpdateFromCopy(t) ==
    LET th == raT[t]
        k == th.ev.PubKey
        isRepost == isRepostNIP18(raCfg, th.ev)
        rejected == RARejects(raCfg, isRepost, th.copy)
        fresh == th.copy
    IN  /\ th.pc = "update"
        /\ raStats' = LruAdd(LruGet(raStats, k, now), k,
                             RAUpdated(raCfg, fresh, rejected, isRepost, now),
                             now, raCfg.CacheSize, raCfg.CacheTTL)
        /\ raT' = [raT EXCEPT ![t] =
                      [RAIdle EXCEPT !.pc = "done",
                                     !.ret = IF rejected THEN Verdict(FALSE, RARatioError)
                                             ELSE Verdict(TRUE, NoError)]]
        /\ raPrev' = [raPrev EXCEPT ![k] =
                         [repost |-> isRepost, allowed |-> ~rejected, at |-> now,
                          had |-> th.had, alone |-> th.alone,
                          streak |-> IF isRepost /\ rejected THEN @.streak + 1 ELSE 0]]
        /\ UNCHANGED <<now, lims, lhist, calls, raCfg, rlVars, emVars, nmVars, ecVars, moreVars>>

\* Match, lines 72-121: the decision on statsCopy, the second section under
\* f.mu and the return
RAUpdate(t) ==
    LET th == raT[t]
        k == th.ev.PubKey
        isRepost == isRepostNIP18(raCfg, th.ev)
        rejected == RARejects(raCfg, isRepost, th.copy)
        fresh == RAReset(raCfg, RAFetch(raStats, k, now), now)
    IN  /\ th.pc = "update"
        /\ raStats' = LruAdd(LruGet(raStats, k, now), k,
                             RAUpdated(raCfg, fresh, rejected, isRepost, now),
                             now, raCfg.CacheSize, raCfg.CacheTTL)
        /\ raT' = [raT EXCEPT ![t] =
                      [RAIdle EXCEPT !.pc = "done",
                                     !.ret = IF rejected THEN Verdict(FALSE, RARatioError)
                                             ELSE Verdict(TRUE, NoError)]]
        /\ raPrev' = [raPrev EXCEPT ![k] =
                         [repost |-> isRepost, allowed |-> ~rejected, at |-> now,
                          had |-> th.had, alone |-> th.alone,
                          streak |-> IF isRepost /\ rejected THEN @.streak + 1 ELSE 0]]
        /\ UNCHANGED <<now, lims, lhist, calls, raCfg, rlVars, emVars, nmVars, ecVars, moreVars>>

\* the cache's cleanup goroutine removes an expired entry
RAExpire ==
    /\ \E i \in LruExpired(raStats, now) : raStats' = LruRemoveAt(raStats, i)
    /\ UNCHANGED <<now, lims, lhist, calls, raCfg, raT, raPrev, rlVars, emVars, nmVars, ecVars, moreVars>>

\* time passes between Match calls: a call is short against one step of the
\* clock, so both its sections read the same time
RATick ==
    /\ \A t \in DOMAIN raT : raT[t].pc \in {"idle", "done"}
    /\ Tick

\* the last call of an identity: its classification, verdict and time, the
\* stats it found, whether it ran alone, and streak, the number of rejected
\* reposts of the identity since its last accepted event
RANoCall ==
    [repost |-> FALSE, allowed |-> TRUE, at |-> ZeroTime, had |-> ZeroStats,
     alone |-> TRUE, streak |-> 0]

\* the filter as built, or after the first identity has had n original posts
\* accepted at time 0
RAInit(cfgs, threads, posted) ==
    /\ now = 0
    /\ lims = <<>>
    /\ lhist = <<>>
    /\ calls = 0
    /\ raCfg \in {NewRepostAbuseFilter(c) : c \in cfgs}
    /\ raT = [t \in threads |-> RAIdle]
    /\ \E n \in posted :
          /\ raStats =
                IF n = 0 \/ ~raCfg.Enabled THEN <<>>
                ELSE LruAdd(<<>>, PubKey(1),
                            [OriginalPosts |-> n, Reposts |-> 0, LastEventTime |-> 0],
                            0, raCfg.CacheSize, raCfg.CacheTTL)
          /\ raPrev = [k \in {ev.PubKey : ev \in RAEvents} |->
                          IF n = 0 \/ ~raCfg.Enabled \/ k # PubKey(1) THEN RANoCall
                          ELSE [RANoCall EXCEPT
                                   !.at = 0,
                                   !.had = [OriginalPosts |-> n - 1, Reposts |-> 0,
                                            LastEventTime |->
                                                IF n = 1 THEN ZeroTime ELSE 0]]]
    /\ RLOff
    /\ EMOff
    /\ NMOff
    /\ ECOff
    /\ MoreOff

\* one Match call at a time
InitRA == RAInit(RAConfigs, {1}, {0, RABase.MinEvents - 1})

NextRA ==
    \/ \E t \in DOMAIN raT, ev \in RAEvents : RAStart(t, ev)
    \/ \E t \in DOMAIN raT : RAUpdate(t)
    \/ RAExpire
    \/ RATick

\* RepostAbuseFilter, its Match calls one after the other
SpecRA == InitRA /\ [][NextRA]_vars

\* concurrent Match calls of one identity
RAConcConfigs == {[RABase EXCEPT !.MinEvents = 1]}

RAConcEvents ==
    {RAEvent(KindTextNote, PubKey(1), FALSE, FALSE),
     RAEvent(KindRepost, PubKey(1), FALSE, FALSE)}

InitRAConc == RAInit(RAConcConfigs, Threads, {0})

NextRAConc ==
    \/ \E t \in DOMAIN raT, ev \in RAConcEvents : RAStart(t, ev)
    \/ \E t \in DOMAIN raT : RAUpdate(t)
    \/ RAExpire
    \/ RATick

\* RepostAbuseFilter under concurrent Match calls
SpecRAConc == InitRAConc /\ [][NextRAConc]_vars

(***************************************************************************)
(* EphemeralChatFilter.  A content is the sequence of its runes, each one  *)
(* of: "A", "B" (uppercase letters), "a", "b" (lowercase letters), "1" (a  *)
(* digit), " " (a space) and "m" (U+0301, a combining mark).               *)
(***************************************************************************)
DefaultChatCacheSize == 10000
DefaultMinLetters == 20
LastSeenTTL == 5 * 60 * TicksPerSecond
LimitersTTL == 15 * 60 * TicksPerSecond
KindChat == 20

\* s repeated n times
Repeat(s, n) == [i \in 1..(n * Len(s)) |-> s[((i - 1) % Len(s)) + 1]]

\* 25 letters, 23 of them uppercase, in words of 5
Caps23Of25 ==
    Repeat(<<"A", "B", "A", "B", "A", " ">>, 4) \o <<"A", "B", "A", "a", "b">>

\* 10 letters, 9 of them uppercase
Caps9Of10 == Repeat(<<"A", "B">>, 4) \o <<"A", "b">>

\* 20 letters, all uppercase, in two words
Caps20Of20 == Repeat(<<"A", "B">>, 5) \o <<" ">> \o Repeat(<<"A", "B">>, 5)

\* 21 letters, all uppercase, with a run of three and a combining mark
Caps21Run == Caps20Of20 \o <<" ", "A", "A", "A", "m">>

Plain == <<"a", "b", " ", "b", "a", "1">>

Run12Marked == Repeat(<<"1">>, 12) \o <<"m">>

ECContents ==
    {Caps23Of25, Caps9Of10, Caps20Of20, Caps21Run, Plain, Run12Marked}

\* an event: pow is the difficulty of the valid proof of work it carries
\* (0: none)
ECEvent(kind, pk, content, pow) ==
    [Kind |-> kind, PubKey |-> pk, Content |-> content, pow |-> pow]

ECEvents ==
    {ECEvent(KindChat, PubKey(1), c, 0) : c \in ECContents}
    \cup {ECEvent(KindChat, PubKey(1), Plain, d) : d \in {4, 8}}
    \cup {ECEvent(KindTextNote, PubKey(1), Caps23Of25, 0),
          ECEvent(KindChat, PubKey(2), Plain, 0)}

ECBase ==
    [Enabled |-> TRUE, Kinds |-> {KindChat}, MinDelay |-> 2,
     MaxCapsRatio |-> Ratio(7, 10), MinLettersForCapsCheck |-> 20,
     MaxRepeatChars |-> 3, MaxWordLength |-> 12, BlockZalgo |-> TRUE,
     RateLimitRate |-> 1, RateLimitBurst |-> 1, RequiredPoWOnLimit |-> 8,
     CacheSize |-> 2]

ECConfigs ==
    {ECBase,
     [ECBase EXCEPT !.MinDelay = 0, !.MinLettersForCapsCheck = 0, !.CacheSize = 0],
     [ECBase EXCEPT !.MinDelay = 0, !.MaxCapsRatio = Ratio(0, 1), !.MaxRepeatChars = 0,
                    !.MaxWordLength = 0, !.BlockZalgo = FALSE, !.RateLimitRate = 0,
                    !.RequiredPoWOnLimit = 4],
     [ECBase EXCEPT !.MinDelay = 1, !.MaxCapsRatio = Ratio(0, 1), !.MaxRepeatChars = 13,
                    !.RateLimitBurst = 2],
     [ECBase EXCEPT !.Enabled = FALSE]}

\* NewEphemeralChatFilter, lines 104-107
ecSize(cfg) == IF cfg.CacheSize <= 0 THEN DefaultChatCacheSize ELSE cfg.CacheSize

\* unicode.IsLetter, unicode.IsUpper
IsLetter(r) == r \in {"A", "B", "a", "b"}

IsUpper(r) == r \in {"A", "B"}

\* Match, lines 141-149
CountLetters(content) == Cardinality({i \in DOMAIN content : IsLetter(content[i])})

CountCaps(content) ==
    Cardinality({i \in DOMAIN content : IsLetter(content[i]) /\ IsUpper(content[i])})

\* Match, lines 150-153
ecMinLetters(cfg) ==
    IF cfg.MinLettersForCapsCheck <= 0 THEN DefaultMinLetters
    ELSE cfg.MinLettersForCapsCheck

\* Match, lines 140-160
CapsRejects(cfg, content) ==
    /\ cfg.MaxCapsRatio.num > 0
    /\ CountLetters(content) > ecMinLetters(cfg)
    /\ CountCaps(content) * cfg.MaxCapsRatio.den
          > cfg.MaxCapsRatio.num * CountLetters(content)

\* Match, lines 165-171: count once runes[i] has been read
RunCount(content, i) ==
    CHOOSE n \in 1..i :
        /\ \A j \in (i - n + 1)..i : content[j] = content[i]
        /\ n = i \/ content[i - n] # content[i]

\* Match, lines 162-177
RepeatRejects(cfg, content) ==
    /\ cfg.MaxRepeatChars > 0
    /\ Len(content) >= cfg.MaxRepeatChars
    /\ \E i \in 2..Len(content) : RunCount(content, i) >= cfg.MaxRepeatChars

\* Match, line 179: wordRegex \S{MaxWordLength,} matches
WordRejects(cfg, content) ==
    /\ cfg.MaxWordLength > 0
    /\ \E i \in 1..Len(content) :
          /\ i + cfg.MaxWordLength - 1 <= Len(content)
          /\ \A j \in i..(i + cfg.MaxWordLength - 1) : content[j] # " "

\* Match, line 183: zalgoRegex matches
ZalgoRejects(cfg, content) ==
    /\ cfg.BlockZalgo
    /\ \E i \in 1..Len(content) : content[i] = "m"

\* nip.IsPoWValid
IsPoWValid(ev, difficulty) == ev.pow >= difficulty

ECDelayError == <<"blocked: posting too frequently in chat">>

ECCapsError == <<"blocked: excessive use of capital letters">>

ECRepeatError == <<"blocked: excessive character repetition">>

ECWordError == <<"blocked: message contains words that are too long">>

ECZalgoError == <<"blocked: message contains Zalgo text">>

ECFloodError(difficulty) ==
    <<"blocked: chat rate limit exceeded. Attach PoW of difficulty", difficulty>>

ECContentErrorZalgoFirst(cfg, content) ==
    IF ZalgoRejects(cfg, content) THEN ECZalgoError
    ELSE IF CapsRejects(cfg, content) THEN ECCapsError
    ELSE IF RepeatRejects(cfg, content) THEN ECRepeatError
    ELSE IF WordRejects(cfg, content) THEN ECWordError
    ELSE NoError

\* Match, lines 138-185: the error of the first check that fails
ECContentError(cfg, content) ==
    IF CapsRejects(cfg, content) THEN ECCapsError
    ELSE IF RepeatRejects(cfg, content) THEN ECRepeatError
    ELSE IF WordRejects(cfg, content) THEN ECWordError
    ELSE IF ZalgoRejects(cfg, content) THEN ECZalgoError
    ELSE NoError

\* A goroutine in Match: the event; at, the time read at line 128; ok and
\* last, the result of f.lastSeen.Get; the limiter in hand; the verdict;
\* ops, the accesses the call has made to the filter's state so far; and
\* retry, whether the goroutine's previous call was for the same author and
\* was rejected by the delay check.
ECIdle ==
    [pc |-> "idle", ev |-> ECEvent(0, EmptyStr, <<>>, 0), at |-> 0, ok |-> FALSE,
     last |-> 0, cur |-> 0, ret |-> Verdict(TRUE, NoError), ops |-> <<>>,
     retry |-> FALSE]

ECReturn(th, allowed, err) == [th EXCEPT !.pc = "done", !.ret = Verdict(allowed, err)]

ECOp(th, op, ok) == [th EXCEPT !.ops = Append(@, Op(op, "pk", ok))]

\* Match, lines 138-187: the checks of the content, then on to the limiter
ECAfterContent(cfg, th) ==
    IF ECContentError(cfg, th.ev.Content) # NoError
    THEN ECReturn(th, FALSE, ECContentError(cfg, th.ev.Content))
    ELSE [th EXCEPT !.pc = "limget"]

ECAfterSeenGetNoDelay(cfg, th) == [th EXCEPT !.pc = "seenadd"]

ECAfterSeenGetInclusive(cfg, th) ==
    IF th.ok /\ th.at - th.last <= cfg.MinDelay
    THEN ECReturn(th, FALSE, ECDelayError)
    ELSE [th EXCEPT !.pc = "seenadd"]

\* Match, lines 130-134
ECAfterSeenGet(cfg, th) ==
    IF th.ok /\ th.at - th.last < cfg.MinDelay
    THEN ECReturn(th, FALSE, ECDelayError)
    ELSE [th EXCEPT !.pc = "seenadd"]

\* Match, lines 122-134, and lines 138-185 when the delay check is off
ECStart(t, ev) ==
    LET th == [ECIdle EXCEPT !.ev = ev,
                             !.retry = /\ ecT[t].ev.PubKey = ev.PubKey
                                       /\ ecT[t].ret.err = ECDelayError]
        found == LruFound(ecLastSeen, ev.PubKey, now)
    IN  /\ ecT[t].pc \in {"idle", "done"}
        /\ calls < MaxCalls
        /\ calls' = calls + 1
        /\ IF ~ecCfg.Enabled \/ ev.Kind \notin ecCfg.Kinds
           THEN /\ ecT' = [ecT EXCEPT ![t] = ECReturn(th, TRUE, NoError)]
                /\ UNCHANGED ecLastSeen
           ELSE IF ecCfg.MinDelay > 0
           THEN /\ ecT' = [ecT EXCEPT ![t] =
                             ECAfterSeenGet(ecCfg,
                                [ECOp(th, "seenget", found) EXCEPT
                                    !.at = now, !.ok = found,
                                    !.last = IF found THEN LruValue(ecLastSeen, ev.PubKey)
                                             ELSE 0])]
                /\ ecLastSeen' = LruGet(ecLastSeen, ev.PubKey, now)
           ELSE /\ ecT' = [ecT EXCEPT ![t] = ECAfterContent(ecCfg, th)]
                /\ UNCHANGED ecLastSeen
        /\ UNCHANGED <<now, lims, lhist, ecCfg, ecLimiters, rlVars, emVars, nmVars, raVars, moreVars>>

\* Match, lines 135-185: f.lastSeen.Add(event.PubKey, now), then the checks
\* of the content
ECSeenAdd(t) ==
    LET th == ecT[t]
    IN  /\ th.pc = "seenadd"
        /\ ecLastSeen' = LruAdd(ecLastSeen, th.ev.PubKey, th.at, now,
                                ecSize(ecCfg), LastSeenTTL)
        /\ ecT' = [ecT EXCEPT ![t] = ECAfterContent(ecCfg, ECOp(th, "seenadd", TRUE))]
        /\ UNCHANGED <<now, lims, lhist, calls, ecCfg, ecLimiters,
                       rlVars, emVars, nmVars, raVars, moreVars>>

\* getLimiter, lines 200-202: f.limiters.Get(key)
ECLimGet(t) ==
    LET th == ecT[t]
        found == LruFound(ecLimiters, th.ev.PubKey, now)
    IN  /\ th.pc = "limget"
        /\ ecLimiters' = LruGet(ecLimiters, th.ev.PubKey, now)
        /\ ecT' = [ecT EXCEPT ![t] =
                      IF found
                      THEN [ECOp(th, "limget", TRUE) EXCEPT
                               !.pc = "allow", !.cur = LruValue(ecLimiters, th.ev.PubKey)]
                      ELSE [ECOp(th, "limget", FALSE) EXCEPT !.pc = "limadd"]]
        /\ UNCHANGED <<now, lims, lhist, calls, ecCfg, ecLastSeen,
                       rlVars, emVars, nmVars, raVars, moreVars>>

\* getLimiter, lines 203-205: rate.NewLimiter and f.limiters.Add(key, limiter)
ECLimAdd(t) ==
    LET th == ecT[t]
        id == Len(lims) + 1
    IN  /\ th.pc = "limadd"
        /\ lims' = Append(lims, NewLimiter(ecCfg.RateLimitRate, ecCfg.RateLimitBurst))
        /\ lhist' = Append(lhist, NoHist)
        /\ ecLimiters' = LruAdd(ecLimiters, th.ev.PubKey, id, now,
                                ecSize(ecCfg), LimitersTTL)
        /\ ecT' = [ecT EXCEPT ![t] =
                      [ECOp(th, "limadd", TRUE) EXCEPT !.pc = "allow", !.cur = id]]
        /\ UNCHANGED <<now, calls, ecCfg, ecLastSeen, rlVars, emVars, nmVars, raVars, moreVars>>

ECAfterAllowNoOverride(cfg, th, ok) ==
    IF ok THEN ECReturn(th, TRUE, NoError)
    ELSE ECReturn(th, FALSE, ECFloodError(cfg.RequiredPoWOnLimit))

\* Match, lines 188-196
ECAfterAllow(cfg, th, ok) ==
    IF ok THEN ECReturn(th, TRUE, NoError)
    ELSE IF IsPoWValid(th.ev, cfg.RequiredPoWOnLimit) THEN ECReturn(th, TRUE, NoError)
    ELSE ECReturn(th, FALSE, ECFloodError(cfg.RequiredPoWOnLimit))

\* Match, lines 188-196: limiter.Allow() and the proof-of-work override
ECAllow(t) ==
    LET th == ecT[t]
        ok == AllowOk(lims[th.cur], now)
    IN  /\ th.pc = "allow"
        /\ lims' = [lims EXCEPT ![th.cur] = AllowNext(@, now)]
        /\ lhist' = [lhist EXCEPT ![th.cur] = HistNext(@, now, ok)]
        /\ ecT' = [ecT EXCEPT ![t] = ECAfterAllow(ecCfg, ECOp(th, "allow", ok), ok)]
        /\ UNCHANGED <<now, calls, ecCfg, ecLastSeen, ecLimiters,
                       rlVars, emVars, nmVars, raVars, moreVars>>

\* NewEphemeralChatFilter
ECInit(cfgs, threads) ==
    /\ now = 0
    /\ lims = <<>>
    /\ lhist = <<>>
    /\ calls = 0
    /\ ecCfg \in cfgs
    /\ ecLastSeen = <<>>
    /\ ecLimiters = <<>>
    /\ ecT = [t \in threads |-> ECIdle]
    /\ RLOff
    /\ EMOff
    /\ NMOff
    /\ RAOff
    /\ MoreOff

\* one Match call at a time
InitEC == ECInit(ECConfigs, {1})

NextEC ==
    \/ \E t \in DOMAIN ecT, ev \in ECEvents : ECStart(t, ev)
    \/ \E t \in DOMAIN ecT : ECSeenAdd(t)
    \/ \E t \in DOMAIN ecT : ECLimGet(t)
    \/ \E t \in DOMAIN ecT : ECLimAdd(t)
    \/ \E t \in DOMAIN ecT : ECAllow(t)
    \/ Tick

\* EphemeralChatFilter, its Match calls one after the other
SpecEC == InitEC /\ [][NextEC]_vars

\* concurrent Match calls of one identity
ECConcEvents == {ECEvent(KindChat, PubKey(1), Plain, 0)}

InitECConc == ECInit({ECBase}, Threads)

NextECConc ==
    \/ \E t \in DOMAIN ecT, ev \in ECConcEvents : ECStart(t, ev)
    \/ \E t \in DOMAIN ecT : ECSeenAdd(t)
    \/ \E t \in DOMAIN ecT : ECLimGet(t)
    \/ \E t \in DOMAIN ecT : ECLimAdd(t)
    \/ \E t \in DOMAIN ecT : ECAllow(t)
    \/ Tick

\* EphemeralChatFilter under concurrent Match calls
SpecECConc == InitECConc /\ [][NextECConc]_vars

(***************************************************************************)
(* LanguageFilter.  A text is a record of what the filter reads from it:   *)
(* len, its length in bytes; cleaned, its length once contentCleanerRegex  *)
(* has removed links, addresses, mentions, hashtags and numbers; lang, the *)
(* language the detector returns for the cleaned text ("" when it returns  *)
(* none); conf, the confidence in percent it computes for a language.      *)
(* The configured thresholds are percentages too.                          *)
(***************************************************************************)
Text(len, cleaned, lang, conf) ==
    [len |-> len, cleaned |-> cleaned, lang |-> lang, conf |-> conf]

NoConfidence == [l \in {"ru", "uk", "en"} |-> 0]

LFRussian == Text(30, 30, "ru", [NoConfidence EXCEPT !["ru"] = 95])

\* Ukrainian that the detector finds close to Russian
LFNearRussian == Text(30, 30, "uk", [NoConfidence EXCEPT !["uk"] = 60, !["ru"] = 40])

\* Ukrainian whose confidence for Russian equals the threshold
LFUkrainian == Text(30, 30, "uk", [NoConfidence EXCEPT !["uk"] = 70, !["ru"] = 30])

LFEnglish == Text(30, 30, "en", [NoConfidence EXCEPT !["en"] = 99])

\* a text the detector returns no language for
LFUndetermined == Text(30, 30, "", NoConfidence)

LFShort == Text(5, 5, "ru", [NoConfidence EXCEPT !["ru"] = 60])

\* long enough as sent, too short once the links are removed
LFLinks == Text(30, 4, "en", [NoConfidence EXCEPT !["en"] = 50])

LFTexts ==
    {LFRussian, LFNearRussian, LFUkrainian, LFEnglish, LFUndetermined, LFShort, LFLinks}

LFEvent(kind, pk, content) == [Kind |-> kind, PubKey |-> pk, Content |-> content]

LFEvents ==
    {LFEvent(KindTextNote, PubKey(1), c) : c \in LFTexts}
        \cup {LFEvent(KindTextNote, PubKey(2), LFRussian),
              LFEvent(KindRepost, PubKey(1), LFEnglish)}

LFBase ==
    [Enabled |-> TRUE, AllowedLanguages |-> {"ru"}, KindsToCheck |-> {KindTextNote},
     MinLengthForCheck |-> 10,
     ApprovedCacheTTL |-> TicksPerSecond, ApprovedCacheSize |-> 1,
     thresholds |-> [p \in {"ru"} |-> [s \in {"uk"} |-> 30]],
     defaultThresholds |-> [p \in {"ru"} |-> 80]]

LFConfigs ==
    {LFBase,
     [LFBase EXCEPT !.ApprovedCacheSize = 2, !.MinLengthForCheck = 0],
     [LFBase EXCEPT !.ApprovedCacheSize = 0],
     [LFBase EXCEPT !.ApprovedCacheTTL = 0],
     [LFBase EXCEPT !.AllowedLanguages = {}],
     [Enabled |-> FALSE]}

\* NewLanguageFilter, lines 133-136: the filter has an approval cache
LFHasCache(cfg) == cfg.ApprovedCacheTTL > 0 /\ cfg.ApprovedCacheSize > 0

LFUndeterminedError == <<"blocked", "language could not be determined">>

LFNotAllowedError(lang) == <<"blocked", "language is not allowed", lang>>

\* Match, lines 187-204: some primary language has a rule for the detected
\* one, or a default, and the confidence for that primary exceeds it
LFAcceptedByThreshold(cfg, content) ==
    \E p \in DOMAIN cfg.thresholds :
        LET hasRule == content.lang \in DOMAIN cfg.thresholds[p]
                           \/ p \in DOMAIN cfg.defaultThresholds
            threshold == IF content.lang \in DOMAIN cfg.thresholds[p]
                         THEN cfg.thresholds[p][content.lang]
                         ELSE cfg.defaultThresholds[p]
        IN  hasRule /\ content.conf[p] > threshold

LFIdle ==
    [pc |-> "idle", ev |-> LFEvent(0, PubKey(0), LFShort), ops |-> <<>>,
     ret |-> Verdict(TRUE, NoError)]

LFReturn(th, allowed, err) == [th EXCEPT !.pc = "done", !.ret = Verdict(allowed, err)]

LFOp(th, op) == [th EXCEPT !.ops = Append(@, op)]

\* Match, lines 177-185 and 195-201: an allowed author is added to the cache
LFApprove(cfg, th) ==
    IF LFHasCache(cfg)
    THEN [th EXCEPT !.pc = "add", !.ret = Verdict(TRUE, NoError)]
    ELSE LFReturn(th, TRUE, NoError)

LFDecideApprovingAll(cfg, th) ==
    LET c == th.ev.Content
    IN  IF c.lang = ""
        THEN [LFOp(th, "detect") EXCEPT !.pc = "add",
                                        !.ret = Verdict(FALSE, LFUndeterminedError)]
        ELSE LFApprove(cfg, LFOp(th, "detect"))

\* Match, lines 167-206: the cleaned text is classified
LFDecide(cfg, th) ==
    LET c == th.ev.Content
    IN  IF c.cleaned < cfg.MinLengthForCheck THEN LFReturn(th, TRUE, NoError)
        ELSE IF c.lang = "" THEN LFReturn(LFOp(th, "detect"), FALSE, LFUndeterminedError)
        ELSE IF c.lang \in cfg.AllowedLanguages THEN LFApprove(cfg, LFOp(th, "detect"))
        ELSE IF LFAcceptedByThreshold(cfg, c)
             THEN LFApprove(cfg, LFOp(LFOp(th, "detect"), "confidence"))
        ELSE LFReturn(LFOp(LFOp(th, "detect"), "confidence"), FALSE,
                      LFNotAllowedError(c.lang))

\* Match, lines 152-160: the filter does not apply to the event
LFSkips(cfg, ev) ==
    \/ ~cfg.Enabled
    \/ cfg.AllowedLanguages = {}
    \/ ev.Kind \notin cfg.KindsToCheck
    \/ (cfg.MinLengthForCheck > 0 /\ ev.Content.len < cfg.MinLengthForCheck)

\* Match, lines 151-206 up to the cache's Add
LFStart(t, ev) ==
    LET th == [LFIdle EXCEPT !.ev = ev]
        hit == LFHasCache(lfCfg) /\ LruFound(lfCache, ev.PubKey, now)
    IN  /\ lfT[t].pc \in {"idle", "done"}
        /\ calls < MaxCalls
        /\ calls' = calls + 1
        /\ lfCache' = IF ~LFSkips(lfCfg, ev) /\ LFHasCache(lfCfg)
                      THEN LruGet(lfCache, ev.PubKey, now)
                      ELSE lfCache
        /\ lfT' = [lfT EXCEPT ![t] =
                      IF LFSkips(lfCfg, ev) THEN LFReturn(th, TRUE, NoError)
                      ELSE IF hit THEN LFReturn(LFOp(th, "hit"), TRUE, NoError)
                      ELSE LFDecide(lfCfg, th)]
        /\ UNCHANGED <<now, lims, lhist, lfCfg, rlVars, emVars, nmVars, raVars, ecVars,
                       szVars, ccVars>>

\* Match, lines 178-180 and 195-197: approvedCache.Add, then the return
LFAdd(t) ==
    LET th == lfT[t]
    IN  /\ th.pc = "add"
        /\ lfCache' = LruAdd(lfCache, th.ev.PubKey, TRUE, now,
                             lfCfg.ApprovedCacheSize, lfCfg.ApprovedCacheTTL)
        /\ lfT' = [lfT EXCEPT ![t] = [LFOp(th, "add") EXCEPT !.pc = "done"]]
        /\ UNCHANGED <<now, lims, lhist, calls, lfCfg, rlVars, emVars, nmVars, raVars,
                       ecVars, szVars, ccVars>>

\* the cache's cleanup goroutine removes an expired entry
LFExpire ==
    /\ \E i \in LruExpired(lfCache, now) : lfCache' = LruRemoveAt(lfCache, i)
    /\ UNCHANGED <<now, lims, lhist, calls, lfCfg, lfT, rlVars, emVars, nmVars, raVars,
                   ecVars, szVars, ccVars>>

\* NewLanguageFilter
LFInit(cfgs, threads) ==
    /\ now = 0
    /\ lims = <<>>
    /\ lhist = <<>>
    /\ calls = 0
    /\ lfCfg \in cfgs
    /\ lfCache = <<>>
    /\ lfT = [t \in threads |-> LFIdle]
    /\ RLOff
    /\ EMOff
    /\ NMOff
    /\ RAOff
    /\ ECOff
    /\ SZOff
    /\ CCOff

InitLF == LFInit(LFConfigs, {1})

NextLF ==
    \/ \E t \in DOMAIN lfT, ev \in LFEvents : LFStart(t, ev)
    \/ \E t \in DOMAIN lfT : LFAdd(t)
    \/ LFExpire
    \/ Tick

\* LanguageFilter, its Match calls one after the other
SpecLF == InitLF /\ [][NextLF]_vars

(***************************************************************************)
(* SizeFilter.  An event carries what json.Marshal makes of it: size, the  *)
(* length of its encoding, or no encoding at all (marshals = FALSE).       *)
(***************************************************************************)
SZEvent(kind, size, marshals) == [Kind |-> kind, size |-> size, marshals |-> marshals]

SZEvents ==
    {SZEvent(k, s, TRUE) : k \in {KindTextNote, KindRepost, KindChat}, s \in {5, 7, 8, 9, 11}}
        \cup {SZEvent(k, 0, FALSE) : k \in {KindTextNote, KindRepost, KindChat}}

SZRules ==
    << [Kinds |-> {KindTextNote, KindRepost}, MaxSize |-> 5, Description |-> "small"],
       [Kinds |-> {KindRepost}, MaxSize |-> 10, Description |-> "reposts"] >>

SZConfigs ==
    {[DefaultMaxSize |-> 8, Rules |-> SZRules],
     [DefaultMaxSize |-> 0, Rules |-> SZRules],
     [DefaultMaxSize |-> 8, Rules |-> <<>>],
     [DefaultMaxSize |-> 8,
      Rules |-> << [Kinds |-> {KindChat}, MaxSize |-> 0, Description |-> "chat"] >>]}

\* NewSizeFilter, lines 19-27: kindMap[kind] is the last rule naming the kind
SZRule(cfg, kind) ==
    LET idx == {i \in 1..Len(cfg.Rules) : kind \in cfg.Rules[i].Kinds}
    IN  IF idx = {} THEN 0 ELSE CHOOSE i \in idx : \A j \in idx : j <= i

\* Match, lines 35-40
SZMaxSize(cfg, kind) ==
    IF SZRule(cfg, kind) = 0 THEN cfg.DefaultMaxSize
    ELSE cfg.Rules[SZRule(cfg, kind)].MaxSize

SZDescription(cfg, kind) ==
    IF SZRule(cfg, kind) = 0 THEN "default event"
    ELSE cfg.Rules[SZRule(cfg, kind)].Description

SZMarshalError == <<"internal", "failed to marshal event for size check">>

SZTooLargeError(size, maxSize, description) ==
    <<"blocked", "event size exceeds limit", size, maxSize, description>>

\* Match, lines 34-57
SZVerdict(cfg, ev) ==
    LET maxSize == SZMaxSize(cfg, ev.Kind)
    IN  IF maxSize = 0 THEN Verdict(TRUE, NoError)
        ELSE IF ~ev.marshals THEN Verdict(FALSE, SZMarshalError)
        ELSE IF ev.size > maxSize
             THEN Verdict(FALSE, SZTooLargeError(ev.size, maxSize,
                                                 SZDescription(cfg, ev.Kind)))
        ELSE Verdict(TRUE, NoError)

SZIdle == [pc |-> "idle", ev |-> SZEvent(0, 0, TRUE), ret |-> Verdict(TRUE, NoError)]

\* SizeFilter.Match: it keeps no state, the call is one step
SZMatch(t, ev) ==
    /\ calls < MaxCalls
    /\ calls' = calls + 1
    /\ szT' = [szT EXCEPT ![t] = [pc |-> "done", ev |-> ev, ret |-> SZVerdict(szCfg, ev)]]
    /\ UNCHANGED <<now, lims, lhist, szCfg, rlVars, emVars, nmVars, raVars, ecVars,
                   lfVars, ccVars>>

\* NewSizeFilter
SZInit(cfgs, threads) ==
    /\ now = 0
    /\ lims = <<>>
    /\ lhist = <<>>
    /\ calls = 0
    /\ szCfg \in cfgs
    /\ szT = [t \in threads |-> SZIdle]
    /\ RLOff
    /\ EMOff
    /\ NMOff
    /\ RAOff
    /\ ECOff
    /\ LFOff
    /\ CCOff

InitSZ == SZInit(SZConfigs, {1})

NextSZ == \E t \in DOMAIN szT, ev \in SZEvents : SZMatch(t, ev)

\* SizeFilter
SpecSZ == InitSZ /\ [][NextSZ]_vars

(***************************************************************************)
(* The cache by itself: an expirable LRU of capacity CCSize, as the        *)
(* filters build it with lru.NewLRU, driven by Get and Add on a few keys.  *)
(***************************************************************************)
CCSize == 2
CCMaxOps == 4
CCTTL == TicksPerSecond

\* one key more than the cache holds
CCKeys == {PubKey(n) : n \in 1..(CCSize + 1)}

\* history: k becomes the most recently touched key
Touch(q, k) == <<k>> \o SelectSeq(q, LAMBDA x : x # k)

NoOp == [op |-> "", key |-> PubKey(0), hit |-> FALSE, full |-> FALSE, evicted |-> {}]

\* f.limiters.Get(key)
CCGet(k) ==
    /\ calls < CCMaxOps
    /\ calls' = calls + 1
    /\ cc' = LruGet(cc, k, now)
    /\ ccTouch' = IF LruFound(cc, k, now) THEN Touch(ccTouch, k) ELSE ccTouch
    /\ ccOp' = [NoOp EXCEPT !.op = "get", !.key = k, !.hit = LruFound(cc, k, now)]
    /\ UNCHANGED <<now, lims, lhist, rlVars, emVars, nmVars, raVars, ecVars, lfVars, szVars>>

\* f.limiters.Add(key, value)
CCAdd(k) ==
    /\ calls < CCMaxOps
    /\ calls' = calls + 1
    /\ cc' = LruAdd(cc, k, calls, now, CCSize, CCTTL)
    /\ ccTouch' = Touch(ccTouch, k)
    /\ ccOp' = [NoOp EXCEPT !.op = "add", !.key = k,
                            !.hit = k \in LruKeys(cc),
                            !.full = (Len(cc) = CCSize),
                            !.evicted = LruKeys(cc) \ LruKeys(cc')]
    /\ UNCHANGED <<now, lims, lhist, rlVars, emVars, nmVars, raVars, ecVars, lfVars, szVars>>

\* the cache's cleanup goroutine removes an expired entry
CCExpire ==
    /\ \E i \in LruExpired(cc, now) : cc' = LruRemoveAt(cc, i)
    /\ UNCHANGED <<now, lims, lhist, calls, ccTouch, ccOp, rlVars, emVars, nmVars, raVars,
                   ecVars, lfVars, szVars>>

\* lru.NewLRU(size, nil, ttl)
InitCC ==
    /\ now = 0
    /\ lims = <<>>
    /\ lhist = <<>>
    /\ calls = 0
    /\ cc = <<>>
    /\ ccTouch = <<>>
    /\ ccOp = NoOp
    /\ RLOff
    /\ EMOff
    /\ NMOff
    /\ RAOff
    /\ ECOff
    /\ LFOff
    /\ SZOff

NextCC ==
    \/ \E k \in CCKeys : CCGet(k)
    \/ \E k \in CCKeys : CCAdd(k)
    \/ CCExpire
    \/ Tick

\* one cache under Get and Add
SpecCC == InitCC /\ [][NextCC]_vars

(***************************************************************************)
(* The evaluators together: one of them is built, then it runs as in its   *)
(* own specification.                                                      *)
(***************************************************************************)
InitEvaluator ==
    \/ RLInit({c \in RLConfigs : c.Enabled /\ c.By = "both" /\ c.DefaultRate = 2}, {1})
    \/ EMInit({c \in EMConfigs : c.NewKeysBurst = 1 /\ c.PerIP.IPv4Prefix = 24}, {1})
    \/ RAInit({[RABase EXCEPT !.MinEvents = 1]}, {1}, {0})
    \/ ECInit({ECBase}, {1})
    \/ LFInit({LFBase}, {1})
    \/ SZInit({c \in SZConfigs : c.DefaultMaxSize = 8 /\ c.Rules = SZRules}, {1})

NextEvaluator ==
    \/ rlT # <<>> /\ NextRL
    \/ emT # <<>> /\ NextEM
    \/ raT # <<>> /\ NextRA
    \/ ecT # <<>> /\ NextEC
    \/ lfT # <<>> /\ NextLF
    \/ szT # <<>> /\ NextSZ

\* any one of the evaluators, its Match calls one after the other
SpecEvaluator == InitEvaluator /\ [][NextEvaluator]_vars

(***************************************************************************)
(* Properties of RateLimiterFilter                                         *)
(***************************************************************************)
Last(q) == q[Len(q)]

RLCreated(th) == th.ops # <<>> /\ Last(th.ops).op = "add"

\* C1: get-or-create installs a single winning limiter: two calls that both
\* found the same key absent charge the same limiter instance, and the calls
\* allowed for one key at one instant are never more than the rule's burst.
C1_SingleWinningLimiter ==
    /\ \A t1, t2 \in DOMAIN rlT :
          ( /\ rlT[t1].pc = "allow" /\ rlT[t2].pc = "allow"
            /\ RLCreated(rlT[t1]) /\ RLCreated(rlT[t2])
            /\ RLKey(rlT[t1]) = RLKey(rlT[t2]) )
          => rlT[t1].cur = rlT[t2].cur
    /\ now = 0 =>
          \A t \in DOMAIN rlT :
             (rlT[t].pc = "done" /\ rlT[t].ops # <<>> /\ rlT[t].ret.allowed)
             => Cardinality({u \in DOMAIN rlT :
                                /\ rlT[u].pc = "done" /\ rlT[u].ops # <<>>
                                /\ rlT[u].ret.allowed
                                /\ RLKey(rlT[u]) = RLKey(rlT[t])}) <= rlT[t].rule.burst

RLBothCase(th) ==
    /\ rlCfg.Enabled /\ rlCfg.By = "both" /\ th.pc # "idle" /\ th.rule.rate > 0
    /\ th.ev.remote_ip # EmptyStr /\ th.ev.PubKey # EmptyStr

\* C2: with dimension = both and a rate > 0 the address key is checked first
\* and the public key second; a denial by the address limiter ends the call
\* with a rejection, and the call makes no access for the public key (its
\* limiter is neither looked up, created nor charged); an allowed event was
\* granted a token by both limiters.
C2_AddressFirstThenStop ==
    \A t \in DOMAIN rlT :
        LET th == rlT[t]
            n == Len(th.ops)
        IN  RLBothCase(th) =>
              /\ n > 0 /\ th.ops[1].dim = "ip"
              /\ \A j \in 1..n : \A k \in 1..j :
                    th.ops[j].dim = "ip" => th.ops[k].dim = "ip"
              /\ \A j \in 1..n :
                    th.ops[j] = Op("allow", "ip", FALSE) =>
                        /\ j = n
                        /\ th.pc = "done" /\ ~th.ret.allowed /\ th.ret.err # NoError
                        /\ \A k \in 1..n : th.ops[k].dim # "pk"
              /\ (th.pc = "done" /\ th.ret.allowed) =>
                    /\ Op("allow", "ip", TRUE) \in {th.ops[j] : j \in 1..n}
                    /\ Last(th.ops) = Op("allow", "pk", TRUE)

\* the address limiter denied an event that carries a public key whose
\* limiter does not exist
C2_Witness ==
    \E t \in DOMAIN rlT :
        /\ RLBothCase(rlT[t])
        /\ rlT[t].pc = "done" /\ ~rlT[t].ret.allowed
        /\ Last(rlT[t].ops) = Op("allow", "ip", FALSE)
        /\ CacheKey(rlT[t].rule.id, [dim |-> "pk", id |-> rlT[t].ev.PubKey])
              \notin LruKeys(rlCache)

\* goroutine t takes its Limiter.Allow() step
RLAllowStep(t) == rlT[t].pc = "allow" /\ rlT'[t] # rlT[t]

RLGranted(t) == lims'[rlT[t].cur] # lims[rlT[t].cur]

RLRejected(t) == rlT'[t].pc = "done" /\ ~rlT'[t].ret.allowed

\* 1/r seconds after the limiter's first use
OnePeriodAfter(l, h, t) == h.t0 >= 0 /\ (t - h.t0) * l.limit = TicksPerSecond

\* C3: a limiter of rate r > 0 and burst b, from its creation: the first b
\* calls at the instant t0 of its first use are granted, any further call at
\* t0 is rejected, and when its b tokens were all granted at t0 then 1/r
\* seconds later one call is granted and the call after it, at that same
\* instant, is rejected.
C3_BurstThenOnePerPeriod ==
    [][\A t \in DOMAIN rlT :
          LET l == lims[rlT[t].cur]
              h == lhist[rlT[t].cur]
          IN  RLAllowStep(t) =>
                /\ l.limit > 0
                /\ (h.t0 \in {0 - 1, now} /\ h.g < l.burst) => RLGranted(t)
                /\ (h.t0 = now /\ h.g >= l.burst) => ~RLGranted(t) /\ RLRejected(t)
                /\ (OnePeriodAfter(l, h, now) /\ h.g0 = l.burst /\ h.g = l.burst)
                      => RLGranted(t)
                /\ (OnePeriodAfter(l, h, now) /\ h.g0 = l.burst /\ h.g = l.burst + 1)
                      => ~RLGranted(t) /\ RLRejected(t)]_vars

\* the whole scenario: b grants at t0, one grant 1/r seconds later and then
\* a rejection at that instant
C3_Witness ==
    \E t \in DOMAIN rlT :
        /\ rlT[t].pc = "done" /\ ~rlT[t].ret.allowed
        /\ Last(rlT[t].ops) = Op("allow", "ip", FALSE)
        /\ OnePeriodAfter(lims[rlT[t].cur], lhist[rlT[t].cur], now)
        /\ lhist[rlT[t].cur].g0 = lims[rlT[t].cur].burst
        /\ lhist[rlT[t].cur].g = lims[rlT[t].cur].burst + 1

\* the rate of the explicit rule of a kind if there is one, else the default
NominalRate(cfg, kind) ==
    IF \E i \in 1..Len(cfg.Rules) : kind \in cfg.Rules[i].Kinds
    THEN cfg.Rules[CHOOSE i \in 1..Len(cfg.Rules) : kind \in cfg.Rules[i].Kinds].Rate
    ELSE cfg.DefaultRate

\* C4: a Match call for a kind whose resolved rate is <= 0 returns allowed at
\* once, whatever came before, and changes neither the cache nor any limiter.
C4_DisabledRateAllows ==
    [][\A t \in DOMAIN rlT :
          ( /\ calls' = calls + 1
            /\ rlT[t].pc \in {"idle", "done"} /\ rlT'[t].pc # "idle"
            /\ NominalRate(rlCfg, rlT'[t].ev.Kind) <= 0 )
          => /\ rlT'[t].pc = "done"
             /\ rlT'[t].ret = Verdict(TRUE, NoError)
             /\ rlT'[t].ops = <<>>
             /\ UNCHANGED <<lims, lhist, rlCache>>]_vars

\* such a call, made when the same address had already run out of tokens
C4_Witness ==
    \E t \in DOMAIN rlT :
        /\ rlT[t].pc = "done" /\ rlT[t].ret.allowed
        /\ rlCfg.Enabled /\ NominalRate(rlCfg, rlT[t].ev.Kind) <= 0
        /\ calls = MaxCalls
        /\ \E i \in 1..Len(lims) : ~AllowOk(lims[i], now)

(***************************************************************************)
(* Properties of EmergencyFilter                                           *)
(***************************************************************************)
OpsOf(th) == {th.ops[j] : j \in 1..Len(th.ops)}

\* goroutine t starts a Match call / takes a later step of its call
EMStartStep(t) == calls' = calls + 1 /\ emT[t].pc \in {"idle", "done"} /\ emT'[t].pc # "idle"

EMStep(t, pc) == emT[t].pc = pc /\ emT'[t] # emT[t]

\* the recently-seen set holds pk and its entry's expiry has not passed
SeenUnexpired(pk) == \E i \in 1..Len(emSeen) : emSeen[i].key = pk /\ now <= emSeen[i].exp

\* the recently-seen set still holds pk, recorded more than the TTL ago
SeenExpired(pk) == \E i \in 1..Len(emSeen) : emSeen[i].key = pk /\ now > emSeen[i].exp

\* C5: a Match call for a public key that is in the recently-seen set,
\* unexpired, returns allowed and leaves the global limiter, every
\* per-address limiter and the per-address limiter cache as they were.
C5_SeenBypassesLimiters ==
    [][\A t \in DOMAIN emT :
          (EMStartStep(t) /\ emGlobal # 0 /\ SeenUnexpired(emT'[t].ev.PubKey))
          => /\ emT'[t].pc = "done"
             /\ emT'[t].ret = Verdict(TRUE, NoError)
             /\ UNCHANGED <<lims, lhist, emPerIP, emGlobal>>]_vars

\* a seen identity is allowed while the global limiter has no token left
C5_Witness ==
    \E t \in DOMAIN emT :
        /\ emT[t].pc = "done" /\ emT[t].ret.allowed
        /\ emT[t].ops = <<Op("get", "seen", TRUE)>>
        /\ ~AllowOk(lims[emGlobal], now)

EMDeniedPerIP(th) == th.ops # <<>> /\ Last(th.ops) = Op("allow", "ip", FALSE)

\* C6: for an unseen identity with per-address throttling on and an address
\* present, a denial by the per-address limiter is the call's last access:
\* the call is rejected with the per-ip reason, it never reaches the global
\* limiter or the recently-seen Add, and no step of the call up to and
\* including the denial changes the global limiter or records an identity.
C6_PerIPDenialStopsCall ==
    /\ [](\A t \in DOMAIN emT :
            \A j \in 1..Len(emT[t].ops) :
                emT[t].ops[j] = Op("allow", "ip", FALSE) =>
                    /\ j = Len(emT[t].ops)
                    /\ emT[t].pc = "done"
                    /\ emT[t].ret = Verdict(FALSE, EMPerIPError)
                    /\ \A o \in OpsOf(emT[t]) : o.dim # "global" /\ o # Op("add", "seen", TRUE)
                    /\ ~SeenUnexpired(emT[t].ev.PubKey))
    /\ [][\A t \in DOMAIN emT :
            ( /\ emT'[t] # emT[t]
              /\ \/ emT'[t].pc \in {"ipget", "ipadd", "ipallow"}
                 \/ emT'[t].pc = "done" /\ EMDeniedPerIP(emT'[t]) )
            => /\ lims'[emGlobal] = lims[emGlobal]
               /\ emSeen' = emSeen]_vars

\* the per-address limiter denied a new identity while the global limiter
\* had a token to give
C6_Witness ==
    \E t \in DOMAIN emT :
        /\ emT[t].pc = "done" /\ EMDeniedPerIP(emT[t])
        /\ emT[t].ret = Verdict(FALSE, EMPerIPError)
        /\ AllowOk(lims[emGlobal], now)
        /\ emT[t].ev.PubKey \notin LruKeys(emSeen)

\* C7: an identity is recorded as seen only by a call that was granted a
\* token by the global limiter, and by the per-address limiter when that
\* check applies; with no time elapsing the identities recorded never
\* outnumber the global burst, under any interleaving.
C7_SeenBoundedByGlobalBurst ==
    /\ \A t \in DOMAIN emT :
          (emT[t].pc = "seenadd" \/ Op("add", "seen", TRUE) \in OpsOf(emT[t]))
          => /\ Op("allow", "global", TRUE) \in OpsOf(emT[t])
             /\ (emCfg.PerIP.Enabled /\ emT[t].ev.remote_ip # EmptyStr)
                   => Op("allow", "ip", TRUE) \in OpsOf(emT[t])
    /\ (now = 0 /\ emGlobal # 0) =>
          /\ Cardinality(LruKeys(emSeen)) <= emCfg.NewKeysBurst
          /\ lhist[emGlobal].g <= emCfg.NewKeysBurst

\* the global burst is used up by as many recorded identities and a further
\* new identity has been rejected
C7_Witness ==
    /\ now = 0 /\ emGlobal # 0
    /\ emCfg.NewKeysBurst = 2
    /\ Cardinality(LruKeys(emSeen)) = emCfg.NewKeysBurst
    /\ \E t \in DOMAIN emT : emT[t].pc = "done" /\ emT[t].ret = Verdict(FALSE, EMGlobalError)

\* C8: a call for an identity whose recently-seen entry is older than the TTL
\* is evaluated as new: the lookup misses and the call goes on to the
\* limiters; a call that missed is allowed only after the global limiter (and
\* the per-address limiter, when it applies) granted it a token, and it is
\* rejected, recording nothing, when the global limiter has no token.
C8_ExpiredIdentityIsNew ==
    [][\A t \in DOMAIN emT :
          /\ (EMStartStep(t) /\ emGlobal # 0 /\ SeenExpired(emT'[t].ev.PubKey))
                => /\ emT'[t].pc \in {"ipget", "global"}
                   /\ emT'[t].ops = <<Op("get", "seen", FALSE)>>
          /\ (EMStep(t, "global") /\ ~AllowOk(lims[emGlobal], now))
                => /\ emT'[t].pc = "done"
                   /\ emT'[t].ret = Verdict(FALSE, EMGlobalError)
                   /\ emSeen' = emSeen
          /\ ( /\ emT'[t] # emT[t] /\ emT'[t].pc = "done" /\ emT'[t].ret.allowed
               /\ Op("get", "seen", FALSE) \in OpsOf(emT'[t]) )
                => /\ Op("allow", "global", TRUE) \in OpsOf(emT'[t])
                   /\ (emCfg.PerIP.Enabled /\ emT'[t].ev.remote_ip # EmptyStr)
                         => Op("allow", "ip", TRUE) \in OpsOf(emT'[t])]_vars

\* an identity approved before, its entry expired and still held, is
\* rejected by the global limiter
C8_Witness ==
    \E t \in DOMAIN emT :
        /\ emT[t].pc = "done" /\ emT[t].ret = Verdict(FALSE, EMGlobalError)
        /\ SeenExpired(emT[t].ev.PubKey)

\* a.b.c.d texts in one /24
Same24(a, b) ==
    /\ a.form \in {"dotted", "mapped"} /\ b.form \in {"dotted", "mapped"}
    /\ Len(ParseIP(a)) # 0 /\ Len(ParseIP(b)) # 0
    /\ SubSeq(a.w, 1, 3) = SubSeq(b.w, 1, 3)

\* a.b.c.0/24
Net24(a) == Str("cidr4", SubSeq(a.w, 1, 3) \o <<0, 24>>)

\* the per-address bucket that address a is charged against is held,
\* unexpired, and has no token to give
BucketExhausted(a) ==
    LET k == normalizeIPWithOptionalPrefixes(a, emCfg.PerIP.IPv4Prefix, emCfg.PerIP.IPv6Prefix)
    IN  /\ \E i \in 1..Len(emPerIP) : emPerIP[i].key = k /\ now <= emPerIP[i].exp
        /\ ~AllowOk(lims[LruValue(emPerIP, k)], now)

\* C9: with an IPv4 prefix of 24 every call from a.b.c.d is keyed a.b.c.0/24,
\* and a new identity's call is rejected by the per-address check whenever
\* the bucket of any address of the same /24 is exhausted.
C9_SharedBucketPer24 ==
    /\ [](\A t \in DOMAIN emT :
            (emCfg.Enabled /\ emCfg.PerIP.IPv4Prefix = 24
                /\ emT[t].pc \in {"ipget", "ipadd", "ipallow"})
            => emT[t].key = Net24(emT[t].ev.remote_ip))
    /\ [][\A t \in DOMAIN emT :
            ( /\ EMStep(t, "ipallow")
              /\ emCfg.PerIP.IPv4Prefix = 24
              /\ \E a \in EMAddrs : Same24(a, emT[t].ev.remote_ip) /\ BucketExhausted(a) )
            => emT'[t].pc = "done" /\ emT'[t].ret = Verdict(FALSE, EMPerIPError)]_vars

\* 203.0.113.77 has used up the bucket, and a new identity calling from
\* 203.0.113.12 is rejected
C9_Witness ==
    \E t \in DOMAIN emT :
        /\ emCfg.Enabled /\ emCfg.PerIP.IPv4Prefix = 24
        /\ emT[t].pc = "done" /\ emT[t].ret = Verdict(FALSE, EMPerIPError)
        /\ emT[t].ev.remote_ip = Addr12
        /\ emT[t].key = Str("cidr4", <<203, 0, 113, 0, 24>>)
        /\ normalizeIPWithOptionalPrefixes(Addr77, 24, 0) = emT[t].key
        /\ Len(emPerIP) = 1 /\ lhist[emT[t].cur].g = 1
        /\ Cardinality(LruKeys(emSeen)) = 1

\* two texts denote the same address
SameAddress(a, b) == Len(ParseIP(a)) # 0 /\ ParseIP(a) = ParseIP(b)

AddrTexts == {Addr77, Addr12, Mapped77, OtherNet, EmptyStr}

\* C10: texts that denote the same address yield equal lookup keys: the
\* per-address key of EmergencyFilter is the same for both, and
\* RateLimiterFilter never holds two "ip:" limiters of one rule for one
\* address.
C10_OneKeyPerAddress ==
    /\ \A a, b \in AddrTexts : \A p \in {0, 24} :
          SameAddress(a, b) =>
             normalizeIPWithOptionalPrefixes(a, p, 0) = normalizeIPWithOptionalPrefixes(b, p, 0)
    /\ \A i, j \in 1..Len(rlCache) :
          ( /\ rlCache[i].key.dim = "ip" /\ rlCache[j].key.dim = "ip"
            /\ rlCache[i].key.rule = rlCache[j].key.rule
            /\ SameAddress(rlCache[i].key.id, rlCache[j].key.id) )
          => i = j

(***************************************************************************)
(* Properties of normalizeIPWithOptionalPrefixes                           *)
(***************************************************************************)
Unparsable(s) == Len(ParseIP(s)) = 0

\* the bytes of the address a text denotes, 4 for IPv4 and 16 for IPv6
AddrBytes(s) ==
    IF Len(To4(ParseIP(s))) # 0 THEN To4(ParseIP(s)) ELSE ParseIP(s)

\* bit i of an address, the first bit being the highest of the first byte
AddrBit(x, i) == (x[((i - 1) \div 8) + 1] \div Pow2(7 - ((i - 1) % 8))) % 2

\* x and y agree on their first n bits, on all of them when n <= 0
AgreeOnPrefix(x, y, n) ==
    /\ Len(x) = Len(y)
    /\ IF n <= 0 THEN x = y
       ELSE \A i \in 1..Min(n, 8 * Len(x)) : AddrBit(x, i) = AddrBit(y, i)

ConfiguredPrefix(s) ==
    IF Len(AddrBytes(s)) = IPv4len THEN nmIn.v4Prefix ELSE nmIn.v6Prefix

\* C11: normalizeIPWithOptionalPrefixes returns an unparsable text
\* unchanged, and gives two texts the same key only if they are the same
\* unparsable text or denote addresses of one family that agree on the
\* configured prefix bits (on all bits when the prefix is <= 0).
C11_NoWildcardKey ==
    nmKey # <<>> =>
        /\ Unparsable(nmIn.a) => nmKey[1] = nmIn.a
        /\ Unparsable(nmIn.b) => nmKey[2] = nmIn.b
        /\ nmKey[1] = nmKey[2] =>
              \/ Unparsable(nmIn.a) /\ Unparsable(nmIn.b) /\ nmIn.a = nmIn.b
              \/ /\ ~Unparsable(nmIn.a)
                 /\ ~Unparsable(nmIn.b)
                 /\ AgreeOnPrefix(AddrBytes(nmIn.a), AddrBytes(nmIn.b),
                                  ConfiguredPrefix(nmIn.a))

(***************************************************************************)
(* Properties of RepostAbuseFilter                                         *)
(***************************************************************************)
RAStartStep(t) == raT[t].pc \in {"idle", "done"} /\ raT'[t].pc = "update"

RAUpdateStep(t) == raT[t].pc = "update" /\ raT'[t].pc = "done"

\* the inactivity window has elapsed at time t for an identity with stats st
WindowElapsed(st, t) ==
    /\ raCfg.ResetDuration > 0
    /\ st.LastEventTime # ZeroTime
    /\ t - st.LastEventTime > raCfg.ResetDuration

\* the counts the decision is to be taken against: zero once the window has
\* elapsed
PostReset(st, t) ==
    IF WindowElapsed(st, t) THEN [o |-> 0, p |-> 0]
    ELSE [o |-> st.OriginalPosts, p |-> st.Reposts]

Counts(st) == [o |-> st.OriginalPosts, p |-> st.Reposts]

\* the stats stored for an identity in cache c at time t
Stored(c, k, t) == IF LruFound(c, k, t) THEN LruValue(c, k) ELSE ZeroStats

\* (p+1)/(o+p+1) >= maxRatio
PredictedAtOrAbove(c) == (c.p + 1) * raCfg.MaxRatio.den >= raCfg.MaxRatio.num * (c.o + c.p + 1)

\* C12: under sequential evaluation, with post-reset counts o and p, a
\* repost is rejected iff o + p >= minEvents and (p+1)/(o+p+1) >= maxRatio,
\* and an original is never rejected.
C12_RepostDecision ==
    [][\A t \in DOMAIN raT :
          RAUpdateStep(t) =>
             LET c == PostReset(raT[t].had, now)
             IN  IF isRepostNIP18(raCfg, raT[t].ev)
                 THEN ~raT'[t].ret.allowed
                        <=> (c.o + c.p >= raCfg.MinEvents /\ PredictedAtOrAbove(c))
                 ELSE raT'[t].ret.allowed]_vars

\* the example of the specification: from 4 originals, with minEvents 5 and
\* maxRatio 0.5, three reposts were accepted and the fourth was rejected
C12_Witness ==
    /\ raCfg.Enabled /\ raCfg.MinEvents = 5 /\ raCfg.MaxRatio = Ratio(1, 2)
    /\ calls = 4
    /\ raPrev[PubKey(1)].repost /\ ~raPrev[PubKey(1)].allowed
    /\ Counts(raPrev[PubKey(1)].had) = [o |-> 4, p |-> 3]
    /\ Counts(Stored(raStats, PubKey(1), now)) = [o |-> 4, p |-> 3]

\* C13: an accepted event adds one to the counter of its classification and
\* refreshes the activity timestamp; a rejected event leaves both counters as
\* they are and refreshes the timestamp iff CountRejectAsActivity is set.
C13_SideEffects ==
    [][\A t \in DOMAIN raT :
          RAUpdateStep(t) =>
             LET k == raT[t].ev.PubKey
                 st == Stored(raStats, k, now)
                 c == PostReset(st, now)
                 after == Stored(raStats', k, now)
                 isRepost == isRepostNIP18(raCfg, raT[t].ev)
             IN  IF raT'[t].ret.allowed
                 THEN /\ after.Reposts = c.p + (IF isRepost THEN 1 ELSE 0)
                      /\ after.OriginalPosts = c.o + (IF isRepost THEN 0 ELSE 1)
                      /\ after.LastEventTime = now
                 ELSE /\ Counts(after) = c
                      /\ after.LastEventTime =
                            IF raCfg.CountRejectAsActivity THEN now ELSE st.LastEventTime]_vars

\* a rejected repost has left an older activity timestamp in place
C13_Witness ==
    \E k \in DOMAIN raPrev :
        /\ ~raCfg.CountRejectAsActivity
        /\ ~raPrev[k].allowed /\ raPrev[k].at = now
        /\ LruFound(raStats, k, now)
        /\ LruValue(raStats, k).LastEventTime # ZeroTime
        /\ LruValue(raStats, k).LastEventTime < now

\* the counts of one event on its own
OnlyThisEvent(allowed, isRepost) ==
    IF ~allowed THEN [o |-> 0, p |-> 0]
    ELSE IF isRepost THEN [o |-> 0, p |-> 1]
    ELSE [o |-> 1, p |-> 0]

\* C14: a tracked event that arrives more than ResetDuration (> 0) after the
\* last activity of its author is decided against zero counts, and the
\* counters stored after it count that event alone.
C14_InactivityDecay ==
    [][\A t \in DOMAIN raT :
          (RAUpdateStep(t) /\ WindowElapsed(raT[t].had, now)) =>
             LET k == raT[t].ev.PubKey
                 isRepost == isRepostNIP18(raCfg, raT[t].ev)
                 zero == [o |-> 0, p |-> 0]
             IN  /\ Counts(raT[t].copy) = zero
                 /\ ~raT'[t].ret.allowed
                       <=> (isRepost /\ 0 >= raCfg.MinEvents /\ PredictedAtOrAbove(zero))
                 /\ Counts(Stored(raStats', k, now))
                       = OnlyThisEvent(raT'[t].ret.allowed, isRepost)]_vars

\* an identity with several events counted came back after the window
C14_Witness ==
    \E k \in DOMAIN raPrev :
        /\ raPrev[k].at = now
        /\ raPrev[k].had.OriginalPosts + raPrev[k].had.Reposts >= 2
        /\ WindowElapsed(raPrev[k].had, now)
        /\ LruFound(raStats, k, now)
        /\ LruValue(raStats, k).OriginalPosts + LruValue(raStats, k).Reposts = 1

\* C15: with CountRejectAsActivity and a window W > 0, a repost that follows
\* a rejected repost of the same identity by less than W, the identity's
\* entry still being in the cache, is rejected and finds and leaves the
\* counters as they were.
C15_RejectedSpamKeepsWindow ==
    [][\A t \in DOMAIN raT :
          LET k == raT[t].ev.PubKey
          IN  (/\ RAUpdateStep(t)
               /\ raCfg.CountRejectAsActivity
               /\ raCfg.ResetDuration > 0
               /\ isRepostNIP18(raCfg, raT[t].ev)
               /\ raPrev[k].streak >= 1
               /\ now - raPrev[k].at < raCfg.ResetDuration
               /\ LruFound(raStats, k, now))
              => /\ ~raT'[t].ret.allowed
                 /\ Counts(raT[t].copy) = Counts(raT[t].had)
                 /\ Counts(Stored(raStats', k, now)) = Counts(raT[t].had)]_vars

\* a second rejected repost, later than the first and inside the window
C15_Witness ==
    \E k \in DOMAIN raPrev :
        /\ raCfg.CountRejectAsActivity
        /\ raPrev[k].streak >= 2
        /\ raPrev[k].at = now
        /\ raPrev[k].had.LastEventTime < now
        /\ now - raPrev[k].had.LastEventTime < raCfg.ResetDuration
        /\ LruFound(raStats, k, now)

ECDone(t) ==
    /\ ecT[t].pc = "done"
    /\ ecCfg.Enabled
    /\ ecT[t].ev.Kind \in ecCfg.Kinds

ECOps(t) == {ecT[t].ops[i].op : i \in 1..Len(ecT[t].ops)}

\* the step is goroutine t entering Match
ECStartStep(t) ==
    /\ ecT[t].pc \in {"idle", "done"}
    /\ calls' = calls + 1
    /\ \A u \in DOMAIN ecT \ {t} : ecT'[u] = ecT[u]

ECReturnStep(t) == ecT[t].pc # "done" /\ ecT'[t].pc = "done"

\* C17: with MinDelay > 0, a chat event that comes less than MinDelay after
\* the recorded last-post time of its author is rejected; an event that
\* passes the delay check has its evaluation time recorded as the last-post
\* time, whatever the later checks decide.
C17_MinDelay ==
    [][\A t \in DOMAIN ecT :
          /\ \A ev \in ECEvents :
                (/\ ECStartStep(t)
                 /\ ecT'[t].ev = ev
                 /\ ecCfg.Enabled /\ ev.Kind \in ecCfg.Kinds /\ ecCfg.MinDelay > 0
                 /\ LruFound(ecLastSeen, ev.PubKey, now)
                 /\ now - LruValue(ecLastSeen, ev.PubKey) < ecCfg.MinDelay)
                => /\ ecT'[t].pc = "done"
                   /\ ~ecT'[t].ret.allowed
                   /\ ecT'[t].ret.err = ECDelayError
          /\ (/\ ECReturnStep(t)
              /\ ecCfg.Enabled /\ ecT'[t].ev.Kind \in ecCfg.Kinds /\ ecCfg.MinDelay > 0
              /\ ecT'[t].ret.err # ECDelayError)
             => /\ LruFound(ecLastSeen', ecT'[t].ev.PubKey, now)
                /\ LruValue(ecLastSeen', ecT'[t].ev.PubKey) = ecT'[t].at]_vars

\* an event passed the delay check, was rejected by a later check, and its
\* evaluation time has replaced an older last-post time
C17_Witness ==
    \E t \in DOMAIN ecT :
        /\ ECDone(t)
        /\ ecCfg.MinDelay > 0
        /\ ecT[t].ret.err \in {ECCapsError, ECRepeatError, ECWordError, ECZalgoError}
        /\ ecT[t].ok /\ ecT[t].last < ecT[t].at
        /\ LruFound(ecLastSeen, ecT[t].ev.PubKey, now)
        /\ LruValue(ecLastSeen, ecT[t].ev.PubKey) = ecT[t].at

\* C18: with MaxCapsRatio > 0, the caps check is skipped iff the content has
\* fewer letters than minLetters; from minLetters letters on, the event is
\* rejected for its capitals iff uppercase/letters > MaxCapsRatio.
C18_CapsCheckFromMinLetters ==
    \A t \in DOMAIN ecT :
        (/\ ECDone(t)
         /\ ecCfg.MaxCapsRatio.num > 0
         /\ ecT[t].ret.err # ECDelayError)
        => (ecT[t].ret.err = ECCapsError
              <=> /\ CountLetters(ecT[t].ev.Content) >= ecMinLetters(ecCfg)
                  /\ CountCaps(ecT[t].ev.Content) * ecCfg.MaxCapsRatio.den
                        > ecCfg.MaxCapsRatio.num * CountLetters(ecT[t].ev.Content))

\* C19: an event that has reached the flood limiter is accepted if the
\* limiter allows; if it denies, the event is accepted iff it carries valid
\* proof of work of at least RequiredPoWOnLimit, and is otherwise rejected
\* with a reason that reports this difficulty.
C19_PoWOverride ==
    \A t \in DOMAIN ecT :
        (ECDone(t) /\ "allow" \in ECOps(t))
        => IF Last(ecT[t].ops).ok
           THEN ecT[t].ret = Verdict(TRUE, NoError)
           ELSE IF ecT[t].ev.pow >= ecCfg.RequiredPoWOnLimit
           THEN ecT[t].ret = Verdict(TRUE, NoError)
           ELSE ecT[t].ret = Verdict(FALSE, ECFloodError(ecCfg.RequiredPoWOnLimit))

\* the limiter denied and the event was accepted for its proof of work
C19_Witness ==
    \E t \in DOMAIN ecT :
        /\ ECDone(t)
        /\ "allow" \in ECOps(t)
        /\ ~Last(ecT[t].ops).ok
        /\ ecT[t].ev.pow >= ecCfg.RequiredPoWOnLimit
        /\ ecT[t].ret.allowed

\* the checks 1-5 in their order: whether each rejects the event of t
ECChecks(t) ==
    << ecCfg.MinDelay > 0 /\ ecT[t].ok /\ ecT[t].at - ecT[t].last < ecCfg.MinDelay,
       CapsRejects(ecCfg, ecT[t].ev.Content),
       RepeatRejects(ecCfg, ecT[t].ev.Content),
       WordRejects(ecCfg, ecT[t].ev.Content),
       ZalgoRejects(ecCfg, ecT[t].ev.Content) >>

ECCheckErrors == <<ECDelayError, ECCapsError, ECRepeatError, ECWordError, ECZalgoError>>

\* C20: the checks run in the order delay, caps ratio, repetition run, token
\* length, combining marks, flood rate; the first one that fails decides the
\* rejection, and the flood limiter is consulted only for events that passed
\* checks 1-5.
C20_FirstFailingCheckDecides ==
    \A t \in DOMAIN ecT :
        ECDone(t) =>
            LET failing == {i \in 1..5 : ECChecks(t)[i]}
            IN  IF failing # {}
                THEN LET first == CHOOSE i \in failing : \A j \in failing : i <= j
                     IN  /\ ecT[t].ret = Verdict(FALSE, ECCheckErrors[first])
                         /\ ECOps(t) \cap {"limget", "limadd", "allow"} = {}
                         /\ first = 1 => "seenadd" \notin ECOps(t)
                ELSE /\ "allow" \in ECOps(t)
                     /\ ecT[t].ret.err
                           \in {NoError, ECFloodError(ecCfg.RequiredPoWOnLimit)}

\* an event that fails three checks was rejected by the first of them, and
\* no limiter was touched
C20_Witness ==
    \E t \in DOMAIN ecT :
        /\ ECDone(t)
        /\ ecT[t].ret.err = ECRepeatError
        /\ WordRejects(ecCfg, ecT[t].ev.Content)
        /\ ZalgoRejects(ecCfg, ecT[t].ev.Content)
        /\ "seenadd" \in ECOps(t)
        /\ "limget" \notin ECOps(t)
        /\ lims = <<>>

(***************************************************************************)
(* Properties of LanguageFilter                                            *)
(***************************************************************************)
Range(q) == {q[i] : i \in 1..Len(q)}

\* the classification of a text ends in "allowed"
LFClassifiedAllowed(cfg, c) ==
    /\ c.lang # ""
    /\ c.lang \in cfg.AllowedLanguages \/ LFAcceptedByThreshold(cfg, c)

LFLengthSkipped(cfg, c) ==
    c.len < cfg.MinLengthForCheck \/ c.cleaned < cfg.MinLengthForCheck

\* the step adds k to the approval cache or renews its entry
LFCached(k) ==
    /\ k \in LruKeys(lfCache')
    /\ \/ k \notin LruKeys(lfCache)
       \/ lfCache'[LruIndex(lfCache', k)].exp # lfCache[LruIndex(lfCache, k)].exp

\* C21: an event of a checked kind whose author is in the approval cache is
\* allowed and the detector is not called for it; and an author enters the
\* cache only through an event that was classified and whose classification
\* allowed it, never through a rejected, an undetermined or a length-skipped
\* event.
C21_ApprovalCache ==
    [][ /\ \A t \in DOMAIN lfT, ev \in LFEvents :
              ( /\ LFStart(t, ev)
                /\ lfCfg.Enabled /\ ev.Kind \in lfCfg.KindsToCheck
                /\ LFHasCache(lfCfg) /\ LruFound(lfCache, ev.PubKey, now) )
              => /\ lfT'[t].pc = "done"
                 /\ lfT'[t].ret = Verdict(TRUE, NoError)
                 /\ "detect" \notin Range(lfT'[t].ops)
        /\ \A k \in {ev.PubKey : ev \in LFEvents} :
              LFCached(k)
              => \E t \in DOMAIN lfT :
                    /\ lfT[t].pc = "add" /\ lfT'[t].pc = "done"
                    /\ lfT[t].ev.PubKey = k
                    /\ "detect" \in Range(lfT[t].ops)
                    /\ lfT'[t].ret = Verdict(TRUE, NoError)
                    /\ LFClassifiedAllowed(lfCfg, lfT[t].ev.Content)
                    /\ ~LFLengthSkipped(lfCfg, lfT[t].ev.Content) ]_vars

\* a cached author sent English, which the filter rejects from anyone else,
\* and was allowed on the cache's word
C21_Witness ==
    \E t \in DOMAIN lfT :
        /\ lfT[t].pc = "done"
        /\ lfT[t].ev.Content = LFEnglish
        /\ lfT[t].ops = <<"hit">>
        /\ lfT[t].ret.allowed
        /\ LruFound(lfCache, lfT[t].ev.PubKey, now)

(***************************************************************************)
(* Properties of every evaluator                                           *)
(***************************************************************************)
\* the verdicts of the Match calls that have returned
Returned ==
    {rlT[t].ret : t \in {u \in DOMAIN rlT : rlT[u].pc = "done"}}
        \cup {emT[t].ret : t \in {u \in DOMAIN emT : emT[u].pc = "done"}}
        \cup {raT[t].ret : t \in {u \in DOMAIN raT : raT[u].pc = "done"}}
        \cup {ecT[t].ret : t \in {u \in DOMAIN ecT : ecT[u].pc = "done"}}
        \cup {lfT[t].ret : t \in {u \in DOMAIN lfT : lfT[u].pc = "done"}}
        \cup {szT[t].ret : t \in {u \in DOMAIN szT : szT[u].pc = "done"}}

\* C22: every verdict Match returns is either allowed with no reason or denied
\* with a non-empty reason, whatever events came before.
C22_VerdictWellFormed ==
    \A v \in Returned :
        \/ v.allowed /\ v.err = NoError
        \/ ~v.allowed /\ v.err # NoError /\ Len(v.err) > 0 /\ v.err[1] # ""

\* a denial has been returned
C22_Witness == \E v \in Returned : ~v.allowed /\ v.err # NoError

\* what a caller can tell from a verdict of SizeFilter or LanguageFilter: an
\* allow, a policy rejection ("blocked: ..."), or something else
Outcome(v) ==
    IF v.allowed /\ v.err = NoError THEN "allow"
    ELSE IF ~v.allowed /\ v.err # NoError /\ v.err[1] = "blocked" THEN "rejection"
    ELSE "failure"

\* C23: when SizeFilter cannot serialize the event, or the detector of
\* LanguageFilter returns no language, Match returns an outcome that is
\* neither an ordinary allow nor an ordinary policy rejection.
C23_FailureDistinguishable ==
    /\ \A t \in DOMAIN szT :
          ( /\ szT[t].pc = "done"
            /\ SZMaxSize(szCfg, szT[t].ev.Kind) # 0
            /\ ~szT[t].ev.marshals )
          => Outcome(szT[t].ret) = "failure"
    /\ \A t \in DOMAIN lfT :
          ( /\ lfT[t].pc = "done"
            /\ "detect" \in Range(lfT[t].ops)
            /\ lfT[t].ev.Content.lang = "" )
          => Outcome(lfT[t].ret) = "failure"

(***************************************************************************)
(* Properties of the cache                                                 *)
(***************************************************************************)
\* the key held in c that was touched longest ago
LeastRecentlyTouched(c, q) ==
    LET held == {i \in 1..Len(q) : q[i] \in LruKeys(c)}
    IN  q[CHOOSE i \in held : \A j \in held : j <= i]

\* C24: the cache never holds more than its capacity, and an Add of a new key
\* to a full cache evicts exactly the entry whose last Get hit or Add is the
\* oldest.
C24_BoundedLeastRecentlyUsed ==
    [][ /\ Len(cc') <= CCSize
        /\ \A k \in CCKeys :
              (CCAdd(k) /\ k \notin LruKeys(cc) /\ Len(cc) = CCSize)
              => LruKeys(cc') =
                    (LruKeys(cc) \ {LeastRecentlyTouched(cc, ccTouch)}) \cup {k} ]_vars

\* capacity + 1 distinct keys were added and nothing else was done: the first
\* of them is the one evicted
C24_Witness ==
    /\ calls = CCSize + 1
    /\ Len(ccTouch) = CCSize + 1
    /\ ccOp.op = "add" /\ ccOp.full /\ ~ccOp.hit
    /\ ccOp.evicted = {ccTouch[Len(ccTouch)]}
    /\ Len(cc) = CCSize

(***************************************************************************)
(* Properties of the limiter records                                       *)
(***************************************************************************)
\* the step is a getLimiter of goroutine t that found the key's limiter
RLHitStep(t) ==
    /\ rlT[t].pc # "allow" /\ rlT'[t].pc = "allow"
    /\ Last(rlT'[t].ops).op = "get" /\ Last(rlT'[t].ops).ok

\* C25: an access that finds an identity's limiter refreshes the expiry of its
\* record to a full TTL from the access, so that an identity that keeps
\* sending keeps its limiter.
C25_AccessRefreshesExpiry ==
    [][ \A t \in DOMAIN rlT :
            RLHitStep(t)
            => rlCache'[LruIndex(rlCache', RLKey(rlT'[t]))].exp = now + rlTTL(rlCfg) ]_vars

(***************************************************************************)
(* Properties of the filters under concurrent calls                        *)
(***************************************************************************)
Total(st) == st.OriginalPosts + st.Reposts

\* C26: whatever calls of the identity overlap it, an accepted tracked event
\* adds one to exactly one of the identity's counters as they stand when its
\* second section runs, a rejected one leaves them alone, and the first
\* section changes them only by an inactivity reset; so, with no reset and
\* no eviction, originals + reposts is the number of accepted events.
C26_NoLostUpdate ==
    [][ \A t \in DOMAIN raT :
          /\ RAUpdateStep(t)
             => LET k == raT[t].ev.PubKey
                    before == Stored(raStats, k, now)
                    after == Stored(raStats', k, now)
                IN  ( \/ k \notin LruKeys(raStats)
                      \/ LruFound(raStats, k, now) /\ ~WindowElapsed(before, now) )
                    => IF raT'[t].ret.allowed
                       THEN /\ Total(after) = Total(before) + 1
                            /\ after.OriginalPosts >= before.OriginalPosts
                            /\ after.Reposts >= before.Reposts
                       ELSE Counts(after) = Counts(before)
          /\ RAStartStep(t)
             => LET k == raT'[t].ev.PubKey
                IN  ~WindowElapsed(Stored(raStats, k, now), now)
                    => Counts(Stored(raStats', k, now)) = Counts(Stored(raStats, k, now))
      ]_vars

\* two calls of one identity overlapped, both were accepted and both are
\* counted
C26_Witness ==
    \E k \in DOMAIN raPrev :
        /\ \A t \in DOMAIN raT : raT[t].pc \in {"idle", "done"}
        /\ calls = 2
        /\ ~raPrev[k].alone /\ raPrev[k].allowed
        /\ Total(Stored(raStats, k, now)) = 2

\* the call goroutine t is in, or has returned from, found the last-post entry
\* of its author and passed the minimum-delay check
ECPassedDelay(t) ==
    /\ ecT[t].pc # "idle"
    /\ ecCfg.Enabled /\ ecT[t].ev.Kind \in ecCfg.Kinds /\ ecCfg.MinDelay > 0
    /\ ecT[t].ok
    /\ ecT[t].ret.err # ECDelayError

\* C27: no two events of one identity both pass the minimum-delay check at
\* instants less than MinDelay apart while the identity's last-post entry is
\* in the cache, however the calls interleave.
C27_DelayUnderConcurrency ==
    \A t, u \in DOMAIN ecT :
        ( /\ t # u
          /\ ECPassedDelay(t) /\ ECPassedDelay(u)
          /\ ecT[t].ev.PubKey = ecT[u].ev.PubKey
          /\ ecT[t].at >= ecT[u].at )
        => ecT[t].at - ecT[u].at >= ecCfg.MinDelay

\* C28: a chat event rejected by the minimum-delay check leaves the recorded
\* last-post time of its author and the entry's expiry as they were, and,
\* with one call at a time, an event that comes MinDelay or more after the
\* recorded last-post time, or finds none recorded, passes the delay check:
\* rejected retries do not postpone the first attempt that passes.
C28_RejectedRetryKeepsLastPost ==
    [][\A t \in DOMAIN ecT :
          LET k == ecT'[t].ev.PubKey
          IN  ( /\ ECStartStep(t)
                /\ ecCfg.Enabled /\ ecT'[t].ev.Kind \in ecCfg.Kinds /\ ecCfg.MinDelay > 0 )
              => /\ ecT'[t].ret.err = ECDelayError
                    => /\ LruFound(ecLastSeen', k, now)
                       /\ LruValue(ecLastSeen', k) = LruValue(ecLastSeen, k)
                       /\ ecLastSeen'[LruIndex(ecLastSeen', k)].exp
                             = ecLastSeen[LruIndex(ecLastSeen, k)].exp
                       /\ LruKeys(ecLastSeen') = LruKeys(ecLastSeen)
                 /\ ( \/ ~LruFound(ecLastSeen, k, now)
                      \/ now - LruValue(ecLastSeen, k) >= ecCfg.MinDelay )
                    => /\ ecT'[t].pc = "seenadd"
                       /\ ecT'[t].ret.err # ECDelayError ]_vars

\* an attempt rejected by the delay check was followed by one exactly MinDelay
\* after the last-post time, which passed and is now the last-post time
C28_Witness ==
    \E t \in DOMAIN ecT :
        /\ ECDone(t)
        /\ ecT[t].retry
        /\ ecT[t].ok /\ ecT[t].at - ecT[t].last = ecCfg.MinDelay
        /\ ecT[t].ret.err # ECDelayError
        /\ LruValue(ecLastSeen, ecT[t].ev.PubKey) = ecT[t].at

====
